---- MODULE Spec2Model ----
(***************************************************************************)
(* A model of the SWEN news pipeline (src/swen_ai_pipeline): the AI        *)
(* enrichment client, the persistence repository over one table with its   *)
(* sessions, the ingestion service and the REST handlers.                  *)
(*                                                                         *)
(* Conventions.  A reply of the generative service is a record             *)
(*   [k |-> "raise" | "none" | "text", pre, doc, post]                      *)
(* "raise": generate_content threw; "none": response.text is None; "text": *)
(* the text is the token sequence pre \o <<"DOC">> \o post, where "DOC"     *)
(* stands for the payload described by doc and the other tokens are the    *)
(* fence marker "FENCE" (three backticks), the language tag "json",        *)
(* another language tag "lang", whitespace " " and prose "txt".            *)
(* Coordinates are integers in microdegrees.  A float that may be          *)
(* non-finite is a record [k |-> "fin" | "inf" | "nan", v]; finite scores   *)
(* are in hundredths.  A Python call ends in [k |-> "ret", v |-> value] or  *)
(* [k |-> "raise", e |-> exception class].                                  *)
(***************************************************************************)
EXTENDS Integers, Sequences, FiniteSets, TLC

VARIABLES
    use_mock,   \* AIService.use_mock (settings.use_mock_ai)
    facet,      \* the last call of an AI client operation: op, input, reply, out
    engine,     \* Database.engine / async_session_maker: "none" or "ready"
    db,         \* the committed rows of table news_articles
    next_pk,    \* the table's autoincrement sequence
    now,        \* the database clock (func.now())
    sess,       \* per client: its AsyncSession's transaction and its position
    last        \* the last completed repository call or HTTP response

vars == <<use_mock, facet, engine, db, next_pk, now, sess, last>>

(***************************************************************************)
(* Python values                                                           *)
(***************************************************************************)
None == "None"

Ret(v) == [k |-> "ret", v |-> v]
Raise(e) == [k |-> "raise", e |-> e]

\* Optional[float] / a JSON scalar where a number is expected
NoneNum == [ty |-> "none", v |-> 0]
Num(n) == [ty |-> "num", v |-> n]
NanNum == [ty |-> "nan", v |-> 0]
StrNum == [ty |-> "str", v |-> 0]

RECURSIVE lstrip(_)
lstrip(s) == IF s # <<>> /\ Head(s) = " " THEN lstrip(Tail(s)) ELSE s

RECURSIVE rstrip(_)
rstrip(s) ==
    IF s # <<>> /\ s[Len(s)] = " " THEN rstrip(SubSeq(s, 1, Len(s) - 1)) ELSE s

\* str.strip()
strip(s) == rstrip(lstrip(s))

\* tok in content
Contains(s, tok) == \E i \in 1..Len(s) : s[i] = tok

\* the index of the first tok in s, Len(s) + 1 when there is none
RECURSIVE FirstIndex(_, _)
FirstIndex(s, tok) ==
    IF s = <<>> \/ Head(s) = tok THEN 1 ELSE 1 + FirstIndex(Tail(s), tok)

\* content.split(tok)[1], for a content that contains tok
SplitSecond(s, tok) ==
    LET rest == SubSeq(s, FirstIndex(s, tok) + 1, Len(s))
    IN  SubSeq(rest, 1, FirstIndex(rest, tok) - 1)

\* Optional[str] whose text matters: None or a token sequence
NoneStr == [ty |-> "none", s |-> <<>>]
Str(s) == [ty |-> "str", s |-> s]

Min(a, b) == IF a < b THEN a ELSE b

\* s[:n]
Prefix(s, n) == SubSeq(s, 1, Min(Len(s), n))

\* str.split(): the maximal runs without whitespace
RECURSIVE split(_)
split(s) ==
    LET t == lstrip(s)
    IN  IF t = <<>> THEN <<>>
        ELSE LET i == FirstIndex(t, " ")
             IN  <<SubSeq(t, 1, i - 1)>> \o split(SubSeq(t, i, Len(t)))

\* " ".join(words)
RECURSIVE join(_)
join(words) ==
    IF words = <<>> THEN <<>>
    ELSE IF Len(words) = 1 THEN words[1]
    ELSE words[1] \o <<" ">> \o join(Tail(words))

\* s.strip(ch) for a quote character
RECURSIVE strip_char(_, _)
strip_char(s, ch) ==
    IF s # <<>> /\ Head(s) = ch THEN strip_char(Tail(s), ch)
    ELSE IF s # <<>> /\ s[Len(s)] = ch THEN strip_char(SubSeq(s, 1, Len(s) - 1), ch)
    ELSE s

\* the text of a reply as tokens
Flatten(r) ==
    r.pre \o (IF r.doc.ty = "empty" THEN <<>> ELSE <<"DOC">>) \o r.post

(***************************************************************************)
(* ai_utils.py                                                             *)
(***************************************************************************)
clean_json_response(content) ==
    LET c1 == strip(content)
        c2 == IF Contains(c1, "FENCE")
              THEN LET inner == SplitSecond(c1, "FENCE")
                   IN  IF inner # <<>> /\ Head(inner) = "json"
                       THEN Tail(inner) ELSE inner
              ELSE c1
    IN  strip(c2)

\* json.loads: the text parses iff it is exactly one well-formed document
json_loads(text, doc) ==
    IF text = <<"DOC">> /\ doc.ty # "bad" THEN Ret(doc) ELSE Raise("JSONDecodeError")

LatMin == -90 * 1000000
LatMax == 90 * 1000000
LngMin == -180 * 1000000
LngMax == 180 * 1000000

\* lo <= x <= hi on floats: every comparison with NaN is false
\* a faulty variant: the upper bound is not checked
AtLeast(lo, x, hi) == x.ty = "num" /\ lo <= x.v

Between(lo, x, hi) == x.ty = "num" /\ lo <= x.v /\ x.v <= hi

\* lat and lng are floats (possibly NaN) or None
validate_coordinates(lat, lng) ==
    IF lat.ty = "none" \/ lng.ty = "none" THEN FALSE
    ELSE Between(LatMin, lat, LatMax) /\ Between(LngMin, lng, LngMax)

\* f"https://www.google.com/maps?q={lat},{lng}"
NoUrl == [ty |-> "none", lat |-> NoneNum, lng |-> NoneNum]
MapsUrl(lat, lng) == [ty |-> "maps", lat |-> lat, lng |-> lng]

\* data_models.Geo
Geo(lat, lng, map_url) == [lat |-> lat, lng |-> lng, map_url |-> map_url]
EmptyGeo == Geo(NoneNum, NoneNum, NoUrl)

create_geo_from_coordinates(lat, lng) ==
    IF validate_coordinates(lat, lng)
    THEN Geo(lat, lng, MapsUrl(lat, lng))
    ELSE EmptyGeo

(***************************************************************************)
(* ai_constants.py                                                         *)
(***************************************************************************)
FallbackTags == <<"#Africa", "#News", "#Development">>
FallbackScore == 70
MinTags == 3
MaxTags == 5
MinSnippetLength == 20

\* floats: finite (hundredths), +-inf, NaN
Fin(v) == [k |-> "fin", v |-> v]
Inf(sign) == [k |-> "inf", v |-> sign]
NaN == [k |-> "nan", v |-> 0]

\* a < b on floats
FloatLt(a, b) ==
    /\ a.k # "nan" /\ b.k # "nan"
    /\ \/ a.k = "fin" /\ b.k = "fin" /\ a.v < b.v
       \/ a.k = "inf" /\ a.v < 0 /\ ~(b.k = "inf" /\ b.v < 0)
       \/ b.k = "inf" /\ b.v > 0 /\ ~(a.k = "inf" /\ a.v > 0)

\* Python's max(a, b): b only when b > a;  min(a, b): b only when b < a
PyMax(a, b) == IF FloatLt(a, b) THEN b ELSE a
PyMin(a, b) == IF FloatLt(b, a) THEN b ELSE a

\* float(s) of a stripped text
PyFloat(text, doc) ==
    IF text # <<"DOC">> THEN Raise("ValueError")
    ELSE CASE doc.ty = "num" -> Ret(Fin(doc.v))
           [] doc.ty = "inf" -> Ret(Inf(doc.v))
           [] doc.ty = "nan" -> Ret(NaN)
           [] OTHER -> Raise("ValueError")

(***************************************************************************)
(* ai_service.py: the facet operations.  Each takes the use_mock flag, the *)
(* article and the reply the generative service gives to its one call.     *)
(***************************************************************************)
SummaryWords == 30

\* a faulty variant: the mock summary is cut from the title
summary_of_title(mock, art, r) ==
    Ret(join(Prefix(split(art.title), SummaryWords)) \o <<"...">>)

generate_summary(mock, art, r) ==
    IF mock THEN Ret(join(Prefix(split(art.body), SummaryWords)) \o <<"...">>)
    ELSE CASE r.k = "raise" -> Raise("APIError")
           [] r.k = "none" -> Raise("AttributeError")
           [] OTHER -> Ret(strip(Flatten(r)))

\* while len(tags) < min_tags: tags.append("#Africa")
RECURSIVE PadTags(_)
PadTags(tags) == IF Len(tags) < MinTags THEN PadTags(Append(tags, "#Africa")) ELSE tags

\* a faulty variant: pads and never cuts
TagsPaddedOnly(tags) == IF Len(tags) < MinTags THEN PadTags(tags) ELSE tags

TagsOfList(tags) ==
    LET padded == IF Len(tags) < MinTags THEN PadTags(tags) ELSE tags
    IN  Prefix(padded, MaxTags)

generate_tags(mock, art, r) ==
    IF mock THEN Ret(<<"#Africa", "#News", "#Technology">>)
    ELSE CASE r.k = "raise" -> Ret(FallbackTags)
           [] r.k = "none" -> Ret(FallbackTags)
           [] OTHER ->
                LET parsed == json_loads(clean_json_response(strip(Flatten(r))), r.doc)
                IN  IF parsed.k = "raise" THEN Ret(FallbackTags)
                    ELSE IF parsed.v.ty = "list" /\ Len(parsed.v.items) > 0
                         THEN Ret(TagsOfList(parsed.v.items))
                         ELSE Ret(FallbackTags)

calculate_relevance_score(mock, art, r) ==
    IF mock THEN Ret(Fin(FallbackScore))
    ELSE CASE r.k = "raise" -> Ret(Fin(FallbackScore))
           [] r.k = "none" -> Ret(Fin(FallbackScore))
           [] OTHER ->
                LET score == PyFloat(strip(Flatten(r)), r.doc)
                IN  IF score.k = "raise" THEN Ret(Fin(FallbackScore))
                    ELSE Ret(PyMin(PyMax(score.v, Fin(0)), Fin(100)))

\* __init__: self.client = None, and genai.Client(...) only if not use_mock
client(mock) == IF mock THEN None ELSE "genai.Client"

\* unified_enrich: no mock branch; self.client.models.generate_content, the
\* fences removed as in clean_json_response, json.loads
unified_enrich(mock, art, r) ==
    IF client(mock) = None THEN Raise("AttributeError")
    ELSE CASE r.k = "raise" -> Raise("APIError")
           [] r.k = "none" -> Raise("AttributeError")
           [] OTHER -> json_loads(clean_json_response(Flatten(r)), r.doc)

\* the outbound calls one operation issues, in order: "generate_content" is a
\* call of the generative service, "GET" a request of the search client
outbound_calls(op, mock, api_key) ==
    CASE op \in {"generate_summary", "generate_tags", "calculate_relevance_score",
                 "extract_context", "extract_geo"} ->
             IF mock THEN <<>> ELSE <<"generate_content">>
      [] op = "discover_media" ->
             IF mock THEN <<>>
             ELSE <<"generate_content">> \o (IF api_key THEN <<"GET", "GET">> ELSE <<>>)
      [] op = "unified_enrich" ->
             IF client(mock) = None THEN <<>> ELSE <<"generate_content">>

MockLat == -1286389
MockLng == 36817223

extract_geo(mock, art, r) ==
    IF mock THEN Ret(Geo(Num(MockLat), Num(MockLng), MapsUrl(Num(MockLat), Num(MockLng))))
    ELSE CASE r.k = "raise" -> Raise("APIError")
           [] r.k = "none" -> Ret(EmptyGeo)
           [] OTHER ->
                LET parsed == json_loads(clean_json_response(strip(Flatten(r))), r.doc)
                IN  CASE parsed.k = "raise" -> Ret(EmptyGeo)
                      [] parsed.v.ty # "obj" -> Ret(EmptyGeo)
                      [] OTHER ->
                           LET lat == parsed.v.lat
                               lng == parsed.v.lng
                           IN  IF lat.ty # "none" /\ lng.ty # "none"
                               THEN CASE lat.ty = "str" -> Raise("TypeError")
                                      [] ~Between(LatMin, lat, LatMax) -> Ret(EmptyGeo)
                                      [] lng.ty = "str" -> Raise("TypeError")
                                      [] ~Between(LngMin, lng, LngMax) -> Ret(EmptyGeo)
                                      [] OTHER -> Ret(Geo(lat, lng, MapsUrl(lat, lng)))
                               ELSE Ret(EmptyGeo)

\* DEFAULT_FALLBACKS and the literals of ai_service.py
FallbackSnippet == "This article covers topics of significance ..."
QualitySnippet == "This article provides important insights ..."
FallbackImageUrl == "https://images.unsplash.com/photo-1484417894907-623942c8ee29?w=800&q=80"
FallbackVideoUrl == "https://www.youtube.com/watch?v=zn8o_DwUwFk"
FallbackJustification == <<"High-quality media content selected from authoritative sources ...">>
FallbackImageCaption == <<"High-quality image relevant to African development">>

\* data_models.EnrichedNewsContext
Context(snippet, sentiment, trend) ==
    [wikipedia_snippet |-> snippet, social_sentiment |-> sentiment, search_trend |-> trend]
FallbackContext == Context(FallbackSnippet, "neutral", "stable")

\* data.get(key, default) of a JSON string member: "<absent>" is a missing key,
\* "<null>" is null, "<num>" a value that is no string
DictGet(member, default) ==
    IF member = "<absent>" THEN default ELSE IF member = "<null>" THEN None ELSE member

extract_context(mock, art, r) ==
    IF mock THEN Ret(FallbackContext)
    ELSE CASE r.k = "raise" -> Raise("APIError")
           [] r.k = "none" -> Ret(FallbackContext)
           [] OTHER ->
                LET parsed == json_loads(clean_json_response(strip(Flatten(r))), r.doc)
                IN  CASE parsed.k = "raise" -> Ret(FallbackContext)
                      [] parsed.v.ty # "obj" -> Ret(FallbackContext)
                      [] OTHER ->
                           LET d == parsed.v
                               sentiment == DictGet(d.sentiment, "neutral")
                               trend == DictGet(d.trend, "stable")
                           IN  CASE d.snippet.ty = "num" -> Raise("TypeError")
                                 [] sentiment = "<num>" \/ trend = "<num>" ->
                                      Raise("ValidationError")
                                 [] d.snippet.ty = "str" /\ d.snippet.v >= MinSnippetLength ->
                                      Ret(Context("snippet of the reply", sentiment, trend))
                                 [] OTHER -> Ret(Context(QualitySnippet, sentiment, trend))

(***************************************************************************)
(* brave_search_service.py.  resp is the outcome of the one GET request:   *)
(* [k |-> "transport" | "status" | "other" | "ok", results, url, title]:   *)
(* the request fails in transport, is answered with an error status, any   *)
(* other exception is thrown while it is made or read, or it is answered   *)
(* with a list of results.                                                 *)
(***************************************************************************)
NoResult == [ty |-> "none", url |-> None, title |-> NoneStr]

\* the try block: client.get, raise_for_status, response.json(), the first result
brave_try(resp) ==
    CASE resp.k = "transport" -> Raise("httpx.HTTPError")
      [] resp.k = "status" -> Raise("httpx.HTTPStatusError")
      [] resp.k = "other" -> Raise("Exception")
      [] OTHER -> IF resp.results > 0
                  THEN Ret([ty |-> "dict", url |-> resp.url, title |-> resp.title])
                  ELSE Ret(NoResult)

\* a faulty variant: only except httpx.HTTPError
brave_except_http(outcome) ==
    IF outcome.k = "raise" /\ outcome.e \in {"httpx.HTTPError", "httpx.HTTPStatusError"}
    THEN Ret(NoResult)
    ELSE outcome

\* except httpx.HTTPError: return None / except Exception: return None
brave_except(outcome) == IF outcome.k = "raise" THEN Ret(NoResult) ELSE outcome

\* the value search_images returns to a caller that passed (query) or (query, count)
search_images(api_key, resp) ==
    IF ~api_key THEN NoResult
    ELSE LET outcome == brave_except(brave_try(resp))
         IN  IF outcome.k = "raise" THEN NoResult ELSE outcome.v

search_videos(api_key, resp) ==
    IF ~api_key THEN NoResult
    ELSE LET outcome == brave_except(brave_try(resp))
         IN  IF outcome.k = "raise" THEN NoResult ELSE outcome.v

\* a keyword argument the caller did not pass
Omitted == "<omitted>"

\* params= of client.get
search_params(query, count) == [q |-> query, count |-> count]

\* a call search_images(query, count=..., country=...) as a whole: the
\* signature is (self, query, count=1), so a call that passes country raises
\* TypeError before the body runs; requests are the GET requests it issued
search_images_call(api_key, args, resp) ==
    IF args.country # Omitted
    THEN [out |-> Raise("TypeError"), requests |-> <<>>]
    ELSE IF ~api_key
    THEN [out |-> Ret(NoResult), requests |-> <<>>]
    ELSE [out |-> brave_except(brave_try(resp)),
          requests |-> <<[url |-> "image_search_url",
                          params |-> search_params(args.query, args.count)]>>]

search_videos_call(api_key, args, resp) ==
    IF args.country # Omitted
    THEN [out |-> Raise("TypeError"), requests |-> <<>>]
    ELSE IF ~api_key
    THEN [out |-> Ret(NoResult), requests |-> <<>>]
    ELSE [out |-> brave_except(brave_try(resp)),
          requests |-> <<[url |-> "video_search_url",
                          params |-> search_params(args.query, args.count)]>>]

brave_discover_media(query, api_key, iresp, vresp) ==
    LET image_result == search_images(api_key, iresp)
        video_result == search_videos(api_key, vresp)
    IN  [query |-> query,
         image_url |-> IF image_result.ty # "none" THEN image_result.url ELSE None,
         image_metadata |-> image_result,
         video_url |-> IF video_result.ty # "none" THEN video_result.url ELSE None,
         video_metadata |-> video_result]

\* discover_media(query, country=...) as a whole: the signature is
\* (self, query); calls are the calls it made to the two searches
brave_discover_media_call(api_key, args, iresp, vresp) ==
    IF args.country # Omitted
    THEN [out |-> Raise("TypeError"), calls |-> <<>>]
    ELSE [out |-> Ret(brave_discover_media(args.query, api_key, iresp, vresp)),
          calls |-> <<[fn |-> "search_images", query |-> args.query, country |-> Omitted],
                      [fn |-> "search_videos", query |-> args.query, country |-> Omitted]>>]

(***************************************************************************)
(* ai_service.py: media discovery                                          *)
(***************************************************************************)
QueryMockChars == 50
QueryFallbackChars == 100
QueryMaxWords == 7
CaptionMaxWords == 15

\* the reply to the query prompt is a text of words: pre \o doc.words \o post
generate_media_search_query(mock, art, r) ==
    IF mock THEN Prefix(art.title, QueryMockChars)
    ELSE IF r.k # "text" THEN Prefix(art.title, QueryFallbackChars)
    ELSE LET query == strip_char(strip_char(strip(r.pre \o r.doc.words \o r.post), "\""), "'")
             words == split(query)
         IN  IF Len(words) > QueryMaxWords THEN join(Prefix(words, QueryMaxWords))
             ELSE query

\* data_models.EnrichedNewsMedia
Media(q, img, icap, vid, vcap, just) ==
    [search_query |-> q, featured_image_url |-> img, image_caption |-> icap,
     related_video_url |-> vid, video_caption |-> vcap, media_justification |-> just]

\* " ".join(words[:15]) if len(words) > 15 else title
Caption(title) ==
    IF title.ty = "none" \/ title.s = <<>> THEN NoneStr
    ELSE IF Len(split(title.s)) > CaptionMaxWords
         THEN Str(join(Prefix(split(title.s), CaptionMaxWords)))
         ELSE title

\* a faulty variant: every value counts as a URL that was found
AnyUrl(url) == TRUE

Truthy(url) == url # None /\ url # ""

discover_media(mock, art, tags, r, api_key, iresp, vresp) ==
    IF mock
    THEN Ret(Media(Str(<<"African development technology">>), FallbackImageUrl,
                   Str(FallbackImageCaption), FallbackVideoUrl,
                   Str(<<"Authoritative video content">>), Str(FallbackJustification)))
    ELSE LET search_query == generate_media_search_query(mock, art, r)
             media_results == brave_discover_media(search_query, api_key, iresp, vresp)
             image_url == media_results.image_url
             video_url == media_results.video_url
             image_caption == IF Truthy(image_url) /\ media_results.image_metadata.ty # "none"
                              THEN Caption(media_results.image_metadata.title)
                              ELSE NoneStr
             video_caption == IF Truthy(video_url) /\ media_results.video_metadata.ty # "none"
                              THEN Caption(media_results.video_metadata.title)
                              ELSE NoneStr
             justification ==
                 <<"Media content discovered using search query '">> \o search_query
                 \o <<"' via Brave Search API. ">>
                 \o (IF Truthy(image_url) THEN <<"Image sourced ... ">> ELSE <<>>)
                 \o (IF Truthy(video_url) THEN <<"Video content ... ">> ELSE <<>>)
                 \o <<"Selected to provide visual context ...">>
         IN  IF image_url = "<num>" \/ video_url = "<num>"
             THEN \* EnrichedNewsMedia rejects a URL that is no string: except Exception
                  Ret(Media(Str(Prefix(art.title, QueryFallbackChars)), FallbackImageUrl,
                            Str(FallbackImageCaption), "", NoneStr,
                            Str(FallbackJustification)))
             ELSE Ret(Media(Str(search_query),
                            IF Truthy(image_url) THEN image_url ELSE FallbackImageUrl,
                            IF Truthy(image_url) THEN image_caption
                            ELSE Str(FallbackImageCaption),
                            IF Truthy(video_url) THEN video_url ELSE "",
                            IF Truthy(video_url) THEN video_caption ELSE NoneStr,
                            Str(justification)))

(***************************************************************************)
(* The inputs of the facet operations                                      *)
(***************************************************************************)
MaxReplyTags == 7
MaxBodyWords == 31

\* n one-letter words separated by single blanks
RECURSIVE Words(_)
Words(n) == IF n = 0 THEN <<>> ELSE IF n = 1 THEN <<"w">> ELSE <<"w", " ">> \o Words(n - 1)

RawArticles ==
    {[title |-> t, body |-> b] :
        t \in {<<"K", "e", "n", "y", "a">>, Words(MaxBodyWords)},
        b \in {<<>>, <<" ", "w", " ", " ", "w", " ">>, Words(MaxBodyWords - 1),
               Words(MaxBodyWords)}}

\* how the payload is wrapped in the text: <<pre, post>>
Wraps ==
    {<< <<>>, <<>> >>,
     << <<" ">>, <<" ">> >>,
     << <<"FENCE", "json", " ">>, <<" ", "FENCE">> >>,
     << <<"FENCE", " ">>, <<" ", "FENCE">> >>,
     << <<"FENCE", "lang", " ">>, <<" ", "FENCE">> >>,
     << <<"txt", " ", "FENCE", "json", " ">>, <<" ", "FENCE", " ", "txt">> >>,
     << <<"FENCE", "json", " ">>, <<>> >>,
     << <<>>, <<" ", "txt">> >>}

Replies(docs, blank) ==
    {[k |-> "raise", pre |-> <<>>, doc |-> blank, post |-> <<>>],
     [k |-> "none", pre |-> <<>>, doc |-> blank, post |-> <<>>]}
    \cup {[k |-> "text", pre |-> w[1], doc |-> d, post |-> w[2]] : w \in Wraps, d \in docs}

NoCall == [k |-> "nocall"]
RepliesIn(mock, replies) == IF mock THEN {NoCall} ELSE replies

TagNames(n) == [i \in 1..n |-> "#T" \o ToString(i)]
TagDocs ==
    {[ty |-> "list", items |-> TagNames(n)] : n \in 0..MaxReplyTags}
    \cup {[ty |-> t, items |-> <<>>] : t \in {"obj", "bad", "empty"}}
TagReplies == Replies(TagDocs, [ty |-> "empty", items |-> <<>>])

ScoreDocs ==
    {[ty |-> "num", v |-> v] : v \in {-150, -1, 0, 1, 50, 99, 100, 101, 250}}
    \cup {[ty |-> "inf", v |-> 1], [ty |-> "inf", v |-> -1], [ty |-> "nan", v |-> 0],
          [ty |-> "word", v |-> 0], [ty |-> "empty", v |-> 0]}
ScoreReplies == Replies(ScoreDocs, [ty |-> "empty", v |-> 0])

SummaryDocs == {[ty |-> "prose"], [ty |-> "empty"]}
SummaryReplies == Replies(SummaryDocs, [ty |-> "empty"])

JsonLats == {NoneNum, StrNum, NanNum}
            \cup {Num(x) : x \in {LatMin - 1, LatMin, 0, MockLat, LatMax, LatMax + 1}}
JsonLngs == {NoneNum, StrNum, NanNum}
            \cup {Num(x) : x \in {LngMin - 1, LngMin, 0, MockLng, LngMax, LngMax + 1}}
GeoDocs ==
    {[ty |-> "obj", lat |-> a, lng |-> b] : a \in JsonLats, b \in JsonLngs}
    \cup {[ty |-> t, lat |-> NoneNum, lng |-> NoneNum] : t \in {"list", "bad", "empty"}}
GeoReplies == Replies(GeoDocs, [ty |-> "empty", lat |-> NoneNum, lng |-> NoneNum])

JsonSnippets ==
    {[ty |-> t, v |-> 0] : t \in {"absent", "null", "num"}}
    \cup {[ty |-> "str", v |-> n] : n \in {0, MinSnippetLength - 1, MinSnippetLength}}
JsonSentiments == {"<absent>", "<null>", "<num>", "positive", "negative", "neutral", "angry"}
JsonTrends == {"<absent>", "<null>", "<num>", "viral", "rising", "stable", "declining", "hot"}
ContextDocs ==
    {[ty |-> "obj", snippet |-> a, sentiment |-> b, trend |-> c] :
        a \in JsonSnippets, b \in JsonSentiments, c \in JsonTrends}
    \cup {[ty |-> t, snippet |-> [ty |-> "absent", v |-> 0], sentiment |-> "<absent>",
           trend |-> "<absent>"] : t \in {"list", "bad", "empty"}}
ContextReplies ==
    Replies(ContextDocs, [ty |-> "empty", snippet |-> [ty |-> "absent", v |-> 0],
                          sentiment |-> "<absent>", trend |-> "<absent>"])

MaxQueryWords == 8
QueryDocs == {[ty |-> "words", words |-> Words(n)] : n \in {0, 1, MaxQueryWords}}
QueryWraps == {<< <<>>, <<>> >>, << <<" ", "\"">>, <<"\"", " ">> >>, << <<"'">>, <<"'">> >>}
QueryReplies ==
    {[k |-> "raise", pre |-> <<>>, doc |-> [ty |-> "words", words |-> <<>>], post |-> <<>>],
     [k |-> "none", pre |-> <<>>, doc |-> [ty |-> "words", words |-> <<>>], post |-> <<>>]}
    \cup {[k |-> "text", pre |-> w[1], doc |-> d, post |-> w[2]] :
            w \in QueryWraps, d \in QueryDocs}

UnifiedDocs == {[ty |-> t] : t \in {"obj", "bad", "empty"}}
UnifiedReplies == Replies(UnifiedDocs, [ty |-> "empty"])

MaxTitleWords == 16
SearchResponses ==
    {[k |-> e, results |-> 0, url |-> None, title |-> NoneStr] :
        e \in {"transport", "status", "other", "ok"}}
    \cup {[k |-> "ok", results |-> 1, url |-> u, title |-> t] :
            u \in {"https://found", None, "<num>"},
            t \in {NoneStr, Str(<<>>), Str(Words(1)), Str(Words(MaxTitleWords))}}

(***************************************************************************)
(* db/models.py and db/repository.py.  An article is a FinalNewsOutput     *)
(* record; a row is a NewsArticle.  A repository call reads the rows its   *)
(* session sees (view) and writes through its session's transaction.       *)
(***************************************************************************)
\* bool(m) of a pydantic model instance: BaseModel defines neither __bool__
\* nor __len__, so every instance is true
ModelTruthy(m) == TRUE

\* NewsArticle(...) of the insert branch; ingested_at is server_default now()
NewRow(news, pk, ts) ==
    [pk |-> pk,
     slug |-> news.id,
     title |-> news.title,
     body |-> news.body,
     source_url |-> news.source_url,
     author |-> news.publisher,
     published_date |-> news.published_at,
     summary |-> news.summary,
     tags |-> news.tags,
     sentiment_label |->
         IF ModelTruthy(news.context) THEN news.context.social_sentiment ELSE "neutral",
     sentiment_score |-> 0,
     images |-> <<>>,
     videos |-> <<>>,
     relevance_score |-> news.relevance_score,
     featured_image_url |->
         IF ModelTruthy(news.media) THEN news.media.featured_image_url ELSE None,
     related_video_url |->
         IF ModelTruthy(news.media) THEN news.media.related_video_url ELSE None,
     media_justification |->
         IF ModelTruthy(news.media) THEN news.media.media_justification ELSE NoneStr,
     wikipedia_snippet |->
         IF ModelTruthy(news.context) THEN news.context.wikipedia_snippet ELSE None,
     search_trend |->
         IF ModelTruthy(news.context) THEN news.context.search_trend ELSE None,
     geo_lat |-> IF ModelTruthy(news.geo) THEN news.geo.lat ELSE NoneNum,
     geo_lng |-> IF ModelTruthy(news.geo) THEN news.geo.lng ELSE NoneNum,
     map_url |-> IF ModelTruthy(news.geo) THEN news.geo.map_url ELSE NoUrl,
     ingested_at |-> ts,
     updated_at |-> ts]

\* a faulty variant: a patch, which keeps the stored geo when the article has none
PatchedRow(row, news, ts) ==
    LET full == [NewRow(news, row.pk, row.ingested_at) EXCEPT !.updated_at = ts]
    IN  IF news.geo.lat.ty = "none"
        THEN [full EXCEPT !.geo_lat = row.geo_lat, !.geo_lng = row.geo_lng,
                          !.map_url = row.map_url]
        ELSE full

\* the assignments of the update branch; the flush writes the row, and sets
\* updated_at (onupdate=func.now()), only when a column changed
UpdatedRow(row, news, ts) ==
    LET r1 == [row EXCEPT
                 !.title = news.title,
                 !.body = news.body,
                 !.source_url = news.source_url,
                 !.author = news.publisher,
                 !.published_date = news.published_at,
                 !.summary = news.summary,
                 !.tags = news.tags,
                 !.sentiment_label =
                     IF ModelTruthy(news.context) THEN news.context.social_sentiment
                     ELSE "neutral",
                 !.sentiment_score = 0,
                 !.images = <<>>,
                 !.videos = <<>>,
                 !.relevance_score = news.relevance_score]
        r2 == IF ModelTruthy(news.media)
              THEN [r1 EXCEPT !.featured_image_url = news.media.featured_image_url,
                              !.related_video_url = news.media.related_video_url,
                              !.media_justification = news.media.media_justification]
              ELSE r1
        r3 == IF ModelTruthy(news.context)
              THEN [r2 EXCEPT !.wikipedia_snippet = news.context.wikipedia_snippet,
                              !.search_trend = news.context.search_trend]
              ELSE r2
        r4 == IF ModelTruthy(news.geo)
              THEN [r3 EXCEPT !.geo_lat = news.geo.lat,
                              !.geo_lng = news.geo.lng,
                              !.map_url = news.geo.map_url]
              ELSE r3
    IN  IF r4 = row THEN row ELSE [r4 EXCEPT !.updated_at = ts]

to_output_model(row) ==
    [id |-> row.slug,
     title |-> row.title,
     body |-> row.body,
     source_url |-> row.source_url,
     publisher |-> row.author,
     published_at |-> row.published_date,
     summary |-> row.summary,
     tags |-> row.tags,
     relevance_score |-> row.relevance_score,
     media |-> Media(NoneStr, row.featured_image_url, NoneStr, row.related_video_url,
                     NoneStr, row.media_justification),
     context |-> Context(row.wikipedia_snippet, row.sentiment_label, row.search_trend),
     geo |-> Geo(row.geo_lat, row.geo_lng, row.map_url),
     ingested_at |-> row.ingested_at]

\* the columns declared nullable=False that an article can leave unset
NotNullViolation(row) == row.sentiment_label = None

\* a faulty variant: the column is not declared unique
NeverViolated(rows, slug) == FALSE

\* slug: unique=True
UniqueViolation(rows, slug) == \E r \in rows : r.slug = slug

\* select(NewsArticle).where(NewsArticle.slug == article_id)
BySlug(view, slug) == {r \in view : r.slug = slug}

NoArticle == [id |-> None]
NoRow == [pk |-> 0]

\* scalar_one_or_none(), then _to_output_model
get_news_by_id(view, article_id) ==
    LET found == BySlug(view, article_id)
    IN  IF Cardinality(found) > 1 THEN Raise("MultipleResultsFound")
        ELSE IF found = {} THEN Ret(NoArticle)
        ELSE Ret(to_output_model(CHOOSE r \in found : TRUE))

\* the rows no other row is newer than
Newest(rows) == {r \in rows : \A x \in rows : r.ingested_at >= x.ingested_at}

\* the orderings ORDER BY ingested_at DESC allows (ties in any order)
RECURSIVE Orderings(_)
Orderings(rows) ==
    IF rows = {} THEN {<<>>}
    ELSE UNION {{<<r>> \o rest : rest \in Orderings(rows \ {r})} : r \in Newest(rows)}

\* a faulty variant: the offset is ignored
FirstPage(ordered, limit, offset) == SubSeq(ordered, 1, Min(Len(ordered), limit))

\* OFFSET offset LIMIT limit of an ordered result
Page(ordered, limit, offset) ==
    SubSeq(ordered, offset + 1, Min(Len(ordered), offset + limit))

MapSeq(seq) == [i \in 1..Len(seq) |-> to_output_model(seq[i])]

\* the results get_all_news can return
get_all_news(view, limit, offset) ==
    {MapSeq(Page(o, limit, offset)) : o \in Orderings(view)}

get_news_count(view) == Cardinality(view)

(***************************************************************************)
(* Articles handed to the repository                                      *)
(***************************************************************************)
FullMedia ==
    Media(Str(<<"query">>), "https://img/a", Str(<<"caption">>), "https://vid/a",
          Str(<<"video caption">>), Str(<<"justification a">>))
SparseMedia == Media(NoneStr, None, NoneStr, None, NoneStr, NoneStr)

FullArticle(id) ==
    [id |-> id, title |-> <<"A">>, body |-> <<"a", " ", "a">>, source_url |-> "https://src/a",
     publisher |-> "publisher a", published_at |-> "2024-01-01", summary |-> <<"a", "...">>,
     tags |-> <<"#A1", "#A2", "#A3">>, relevance_score |-> Fin(90),
     media |-> FullMedia, context |-> Context("snippet a", "positive", "rising"),
     geo |-> Geo(Num(MockLat), Num(MockLng), MapsUrl(Num(MockLat), Num(MockLng))),
     ingested_at |-> 0]

\* every optional field absent
SparseArticle(id) ==
    [id |-> id, title |-> <<"B">>, body |-> <<"b">>, source_url |-> "https://src/b",
     publisher |-> None, published_at |-> None, summary |-> <<"b">>,
     tags |-> <<"#B1", "#B2", "#B3", "#B4">>, relevance_score |-> Fin(10),
     media |-> SparseMedia, context |-> Context(None, "neutral", None),
     geo |-> EmptyGeo, ingested_at |-> 0]

\* the sentiment label absent too: the column is NOT NULL
UnlabelledArticle(id) ==
    [SparseArticle(id) EXCEPT !.context = Context(None, None, None)]

(***************************************************************************)
(* The AI client called operation by operation                             *)
(***************************************************************************)
Idle == [op |-> "idle"]

FacetInit ==
    /\ use_mock \in BOOLEAN
    /\ facet = Idle
    /\ engine = "none" /\ db = {} /\ next_pk = 1 /\ now = 0
    /\ sess = <<>> /\ last = Idle

FacetFrame == UNCHANGED <<use_mock, engine, db, next_pk, now, sess, last>>

GenerateSummary ==
    /\ facet = Idle
    /\ \E art \in RawArticles, r \in RepliesIn(use_mock, SummaryReplies) :
         facet' = [op |-> "generate_summary", art |-> art, reply |-> r,
                   out |-> generate_summary(use_mock, art, r)]
    /\ FacetFrame

GenerateTags ==
    /\ facet = Idle
    /\ \E art \in RawArticles, r \in RepliesIn(use_mock, TagReplies) :
         facet' = [op |-> "generate_tags", art |-> art, reply |-> r,
                   out |-> generate_tags(use_mock, art, r)]
    /\ FacetFrame

CalculateRelevanceScore ==
    /\ facet = Idle
    /\ \E art \in RawArticles, r \in RepliesIn(use_mock, ScoreReplies) :
         facet' = [op |-> "calculate_relevance_score", art |-> art, reply |-> r,
                   out |-> calculate_relevance_score(use_mock, art, r)]
    /\ FacetFrame

\* the texts handed to clean_json_response: a payload in every wrapping
CleanInputs == {w[1] \o <<"DOC">> \o w[2] : w \in Wraps}

CleanJsonResponse ==
    /\ facet = Idle
    /\ \E content \in CleanInputs :
         facet' = [op |-> "clean_json_response", content |-> content,
                   out |-> clean_json_response(content),
                   twice |-> clean_json_response(clean_json_response(content))]
    /\ FacetFrame

GenerateMediaSearchQuery ==
    /\ facet = Idle
    /\ \E art \in RawArticles, r \in RepliesIn(use_mock, QueryReplies) :
         facet' = [op |-> "generate_media_search_query", art |-> art, reply |-> r,
                   out |-> generate_media_search_query(use_mock, art, r)]
    /\ FacetFrame

DiscoverMedia ==
    /\ facet = Idle
    /\ \E art \in RawArticles, r \in RepliesIn(use_mock, QueryReplies), key \in BOOLEAN,
          iresp \in SearchResponses, vresp \in SearchResponses :
         facet' = [op |-> "discover_media", art |-> art, reply |-> r,
                   api_key |-> key, iresp |-> iresp, vresp |-> vresp,
                   out |-> discover_media(use_mock, art, <<>>, r, key, iresp, vresp)]
    /\ FacetFrame

ExtractContext ==
    /\ facet = Idle
    /\ \E art \in RawArticles, r \in RepliesIn(use_mock, ContextReplies) :
         facet' = [op |-> "extract_context", art |-> art, reply |-> r,
                   out |-> extract_context(use_mock, art, r)]
    /\ FacetFrame

ExtractGeo ==
    /\ facet = Idle
    /\ \E art \in RawArticles, r \in RepliesIn(use_mock, GeoReplies) :
         facet' = [op |-> "extract_geo", art |-> art, reply |-> r,
                   out |-> extract_geo(use_mock, art, r)]
    /\ FacetFrame

CreateGeoFromCoordinates ==
    /\ facet = Idle
    /\ \E lat \in JsonLats \ {StrNum}, lng \in JsonLngs \ {StrNum} :
         facet' = [op |-> "create_geo_from_coordinates", lat |-> lat, lng |-> lng,
                   out |-> Ret(create_geo_from_coordinates(lat, lng))]
    /\ FacetFrame

\* the rows save_news can find for the article it is given
StoredBefore ==
    {NoRow, NewRow(FullArticle("u1"), 1, 1), NewRow(SparseArticle("u1"), 1, 1)}

\* the geo of extract_geo put in an article, saved (inserted, or written over
\* the row stored before) and read back through _to_output_model
StoreAndReadGeo ==
    /\ facet = Idle
    /\ \E art \in RawArticles, r \in RepliesIn(use_mock, GeoReplies), prev \in StoredBefore :
         LET geo == extract_geo(use_mock, art, r)
             news == [FullArticle("u1") EXCEPT !.geo = geo.v]
             row == IF prev = NoRow THEN NewRow(news, 1, 1) ELSE UpdatedRow(prev, news, 2)
         IN  /\ geo.k = "ret"
             /\ facet' = [op |-> "store_and_read_geo", art |-> art, reply |-> r,
                          prev |-> prev, geo |-> geo.v,
                          out |-> Ret(to_output_model(row).geo)]
    /\ FacetFrame

UnifiedEnrich ==
    /\ facet = Idle
    /\ \E art \in RawArticles, r \in RepliesIn(use_mock, UnifiedReplies) :
         facet' = [op |-> "unified_enrich", art |-> art, reply |-> r,
                   out |-> unified_enrich(use_mock, art, r)]
    /\ FacetFrame

FacetReturn ==
    /\ facet # Idle
    /\ facet' = Idle
    /\ FacetFrame

FacetNext ==
    \/ GenerateSummary \/ GenerateTags \/ CalculateRelevanceScore
    \/ GenerateMediaSearchQuery \/ DiscoverMedia \/ CleanJsonResponse
    \/ ExtractContext \/ ExtractGeo \/ CreateGeoFromCoordinates \/ StoreAndReadGeo
    \/ UnifiedEnrich
    \/ FacetReturn

SpecFacet == FacetInit /\ [][FacetNext]_vars

(***************************************************************************)
(* Properties of the facet operations, checked under SpecFacet             *)
(***************************************************************************)
FacetOps ==
    {"generate_summary", "generate_tags", "calculate_relevance_score",
     "discover_media", "extract_context", "extract_geo"}

\* C2: in live mode each of the six facet operations absorbs its own failure:
\* whatever the generative service does (raises, returns no text, returns text
\* that does not parse or a value of the wrong type), the operation returns a
\* value and does not raise.
C2_FacetsAbsorbFailures ==
    (~use_mock /\ facet.op \in FacetOps) => facet.out.k = "ret"

\* C3: for every reply text and in mock mode, calculate_relevance_score returns
\* a number v with 0.0 <= v <= 1.0 (in hundredths: 0 <= v <= 100); a text that
\* is not a number, no text and a thrown error give the fallback 0.7.
C3_ScoreInUnitInterval ==
    facet.op = "calculate_relevance_score" =>
        /\ facet.out.k = "ret"
        /\ facet.out.v.k = "fin"
        /\ 0 <= facet.out.v.v /\ facet.out.v.v <= 100
        /\ (~use_mock /\ (facet.reply.k # "text" \/ facet.reply.doc.ty \in {"word", "empty"}))
              => facet.out.v = Fin(FallbackScore)

\* the reply is a text that, once cleaned, is a JSON list
ReceivedList(r) ==
    /\ r.k = "text"
    /\ r.doc.ty = "list"
    /\ json_loads(clean_json_response(strip(Flatten(r))), r.doc).k = "ret"

\* C4: for every reply and in mock mode generate_tags returns a list of 3 to 5
\* items: a received non-empty list shorter than 3 is padded to 3 with the
\* received tags first and in order, a list longer than 5 is cut to its first
\* 5 items, a list of 3 to 5 items is returned as received, and every other
\* reply (empty list, not a list, invalid JSON, no text, a thrown error) gives
\* the 3-item fallback list.
C4_TagsBetween3And5 ==
    facet.op = "generate_tags" =>
        /\ facet.out.k = "ret"
        /\ Len(facet.out.v) >= 3 /\ Len(facet.out.v) <= 5
        /\ ~use_mock =>
             LET r == facet.reply
                 n == Len(r.doc.items)
                 out == facet.out.v
             IN  IF ReceivedList(r) /\ n > 0
                 THEN /\ n < 3 => Len(out) = 3 /\ SubSeq(out, 1, n) = r.doc.items
                      /\ n > 5 => out = SubSeq(r.doc.items, 1, 5)
                      /\ (n >= 3 /\ n <= 5) => out = r.doc.items
                 ELSE out = FallbackTags /\ Len(FallbackTags) = 3

\* a fenced list of more than five tags came back as its first five
C4_Witness ==
    /\ facet.op = "generate_tags"
    /\ ~use_mock
    /\ ReceivedList(facet.reply)
    /\ Len(facet.reply.doc.items) > 5
    /\ facet.reply.pre # <<>>
    /\ facet.out = Ret(SubSeq(facet.reply.doc.items, 1, 5))

GeoComplete(g) ==
    /\ g.lat.ty = "num" /\ LatMin <= g.lat.v /\ g.lat.v <= LatMax
    /\ g.lng.ty = "num" /\ LngMin <= g.lng.v /\ g.lng.v <= LngMax
    /\ g.map_url.ty = "maps"

GeoEmpty(g) == g.lat.ty = "none" /\ g.lng.ty = "none" /\ g.map_url.ty = "none"

\* C5: every GeoPoint returned by extract_geo or create_geo_from_coordinates,
\* and every GeoPoint of a stored article read back from the repository, is
\* complete (lat, lng and map_url present, -90 <= lat <= 90, -180 <= lng <= 180)
\* or empty (all three absent).
C5_GeoCompleteOrEmpty ==
    (/\ facet.op \in {"extract_geo", "create_geo_from_coordinates", "store_and_read_geo"}
     /\ facet.out.k = "ret")
        => GeoComplete(facet.out.v) \/ GeoEmpty(facet.out.v)

\* a point on the edge of both ranges, from a live reply, stored and read back
C5_Witness ==
    /\ facet.op = "store_and_read_geo"
    /\ ~use_mock
    /\ facet.prev = NoRow
    /\ facet.out.v.lat = Num(LatMax)
    /\ facet.out.v.lng = Num(LngMin)
    /\ GeoComplete(facet.out.v)

\* C11: in live mode, when the search client returns no image and no video
\* for the derived query, discover_media returns an EnrichedNewsMedia whose
\* featured image URL is the fallback image URL of DEFAULT_FALLBACKS, whose
\* related video URL is the empty string and whose video caption is absent.
C11_NoMediaGivesFallbacks ==
    (/\ facet.op = "discover_media"
     /\ ~use_mock
     /\ search_images(facet.api_key, facet.iresp) = NoResult
     /\ search_videos(facet.api_key, facet.vresp) = NoResult)
        => /\ facet.out.k = "ret"
           /\ facet.out.v.featured_image_url = FallbackImageUrl
           /\ facet.out.v.related_video_url = ""
           /\ facet.out.v.video_caption = NoneStr

\* both requests were made with a credential and answered with empty result
\* lists, after the generative service had given a query
C11_Witness ==
    /\ facet.op = "discover_media"
    /\ ~use_mock
    /\ facet.api_key
    /\ facet.reply.k = "text"
    /\ facet.iresp.k = "ok" /\ facet.iresp.results = 0
    /\ facet.vresp.k = "ok" /\ facet.vresp.results = 0
    /\ facet.out.k = "ret"
    /\ facet.out.v.featured_image_url = FallbackImageUrl
    /\ facet.out.v.related_video_url = ""

\* C29: AIService.discover_media never raises: for every outcome of the query
\* generation and of the search client (both media found, one found, none
\* found, or an exception) it returns an EnrichedNewsMedia whose featured
\* image URL is non-empty (a found URL or the fallback), whose related video
\* URL is a found URL or the empty string, whose video caption is absent
\* whenever the related video URL is empty, and whose media justification is
\* non-empty.  In mock mode neither the query generation nor the search client
\* is called and the related video URL is the one of DEFAULT_FALLBACKS.
C29_DiscoverMediaNeverRaises ==
    facet.op = "discover_media" =>
        LET found(key, resp) == IF key /\ brave_try(resp).k = "ret"
                                      /\ brave_try(resp).v.ty # "none"
                                      /\ resp.url \notin {None, "", "<num>"}
                                THEN {resp.url} ELSE {}
            media == facet.out.v
        IN  /\ facet.out.k = "ret"
            /\ media.featured_image_url \notin {"", None, "<num>"}
            /\ media.featured_image_url
                   \in {FallbackImageUrl} \cup found(facet.api_key, facet.iresp)
            /\ media.related_video_url
                   \in (IF use_mock THEN {FallbackVideoUrl}
                        ELSE {""} \cup found(facet.api_key, facet.vresp))
            /\ media.related_video_url = "" => media.video_caption = NoneStr
            /\ media.media_justification \notin {NoneStr, Str(<<>>)}

\* one found: the image search gave a URL, the video search failed in transport
C29_Witness ==
    /\ facet.op = "discover_media"
    /\ ~use_mock
    /\ facet.api_key
    /\ facet.iresp.k = "ok" /\ facet.iresp.results = 1
    /\ facet.iresp.url = "https://found"
    /\ facet.vresp.k = "transport"
    /\ facet.out.k = "ret"
    /\ facet.out.v.featured_image_url = "https://found"
    /\ facet.out.v.related_video_url = ""
    /\ facet.out.v.video_caption = NoneStr

\* C25: generate_media_search_query returns a text of at most 7
\* whitespace-separated words for every title and body, in mock mode, in live
\* mode whatever the generative service replies, and when the call fails.
C25_QueryAtMostSevenWords ==
    facet.op = "generate_media_search_query" =>
        Len(split(facet.out)) <= QueryMaxWords

SENTIMENT_OPTIONS == {"positive", "negative", "neutral"}
TREND_OPTIONS == {"viral", "rising", "stable", "declining"}

\* C26: every EnrichedContext that extract_context returns, whatever the
\* generative service replies, has a sentiment label among positive, negative
\* and neutral and a trend label among viral, rising, stable and declining.
C26_ContextLabelsInOptions ==
    (facet.op = "extract_context" /\ facet.out.k = "ret") =>
        /\ facet.out.v.social_sentiment \in SENTIMENT_OPTIONS
        /\ facet.out.v.search_trend \in TREND_OPTIONS

\* C28: clean_json_response returns its input unchanged when the input
\* contains no fence marker; when it contains one, it returns the text between
\* the first pair of fence markers with a leading language tag, whatever the
\* language, removed and the surrounding whitespace trimmed; and applying it
\* twice gives what applying it once gives.
C28_CleanJsonResponse ==
    facet.op = "clean_json_response" =>
        LET inner == SplitSecond(facet.content, "FENCE")
            untagged == IF inner # <<>> /\ Head(inner) \in {"json", "lang"}
                        THEN Tail(inner) ELSE inner
        IN  /\ ~Contains(facet.content, "FENCE") => facet.out = facet.content
            /\ Contains(facet.content, "FENCE") => facet.out = strip(untagged)
            /\ facet.twice = facet.out

\* C14: in mock mode no operation of the AI client issues an outbound call to
\* the generative service or to the search service: each operation that can
\* issue one checks the mock flag first and returns a local value instead.
C14_MockIssuesNoCall ==
    (use_mock /\ facet.op \in FacetOps \cup {"unified_enrich"}) =>
        /\ outbound_calls(facet.op, use_mock,
                          IF facet.op = "discover_media" THEN facet.api_key ELSE FALSE) = <<>>
        /\ facet.out.k = "ret"

(***************************************************************************)
(* The search client called operation by operation                         *)
(***************************************************************************)
SearchArgs ==
    [query : {Words(1), Words(2)}, count : {1, 5}, country : {Omitted, "uk"}]

DiscoverArgs == [query : {Words(1), Words(2)}, country : {Omitted, "us"}]

SearchImages ==
    /\ facet = Idle
    /\ \E key \in BOOLEAN, args \in SearchArgs, resp \in SearchResponses :
         \E call \in {search_images_call(key, args, resp)} :
           facet' = [op |-> "search_images", api_key |-> key, args |-> args, resp |-> resp,
                     out |-> call.out, requests |-> call.requests]
    /\ FacetFrame

SearchVideos ==
    /\ facet = Idle
    /\ \E key \in BOOLEAN, args \in SearchArgs, resp \in SearchResponses :
         \E call \in {search_videos_call(key, args, resp)} :
           facet' = [op |-> "search_videos", api_key |-> key, args |-> args, resp |-> resp,
                     out |-> call.out, requests |-> call.requests]
    /\ FacetFrame

BraveDiscoverMedia ==
    /\ facet = Idle
    /\ \E key \in BOOLEAN, args \in DiscoverArgs, iresp \in SearchResponses,
          vresp \in SearchResponses :
         \E call \in {brave_discover_media_call(key, args, iresp, vresp)} :
           facet' = [op |-> "brave_discover_media", api_key |-> key, args |-> args,
                     image_result |-> search_images(key, iresp),
                     video_result |-> search_videos(key, vresp),
                     out |-> call.out, calls |-> call.calls]
    /\ FacetFrame

BraveNext == SearchImages \/ SearchVideos \/ BraveDiscoverMedia \/ FacetReturn

SpecBrave == FacetInit /\ [][BraveNext]_vars

\* C13: search_images and search_videos never raise: on a transport error, an
\* HTTP error status, any other exception during the request or an empty
\* result list they return None, and without the API credential they return
\* None and issue no request.  (Calls with the arguments the signature takes.)
C13_SearchNeverRaises ==
    (facet.op \in {"search_images", "search_videos"} /\ facet.args.country = Omitted) =>
        /\ facet.out.k = "ret"
        /\ (facet.resp.k \in {"transport", "status", "other"} \/ facet.resp.results = 0)
              => facet.out.v = NoResult
        /\ ~facet.api_key => facet.out.v = NoResult /\ facet.requests = <<>>
        /\ Len(facet.requests) <= 1

\* an exception that is no httpx.HTTPError was thrown during the one request
C13_Witness ==
    /\ facet.op = "search_videos"
    /\ facet.args.country = Omitted
    /\ facet.api_key
    /\ facet.resp.k = "other"
    /\ Len(facet.requests) = 1
    /\ facet.out = Ret(NoResult)

\* C19: search_images(query, count, country) and search_videos(query, count,
\* country) each issue exactly one request, with the parameters q = query,
\* count = count, country = country, search_lang = "en", spellcheck = 1 and
\* safesearch = "moderate".  (With the API credential configured.)
C19_SearchRequestParams ==
    (facet.op \in {"search_images", "search_videos"} /\ facet.api_key) =>
        /\ Len(facet.requests) = 1
        /\ facet.requests[1].params =
              [q |-> facet.args.query, count |-> facet.args.count,
               country |-> facet.args.country, search_lang |-> "en", spellcheck |-> 1,
               safesearch |-> "moderate"]

\* C20: BraveSearchService.discover_media(query, country) calls search_images
\* and search_videos once each with the same query and country and returns
\* the query, the URL of each search result or None without a result, and the
\* two results as image_metadata and video_metadata.
C20_DiscoverMediaCallsBoth ==
    facet.op = "brave_discover_media" =>
        /\ facet.out.k = "ret"
        /\ Len(facet.calls) = 2
        /\ facet.calls[1] = [fn |-> "search_images", query |-> facet.args.query,
                             country |-> facet.args.country]
        /\ facet.calls[2] = [fn |-> "search_videos", query |-> facet.args.query,
                             country |-> facet.args.country]
        /\ facet.out.v.query = facet.args.query
        /\ facet.out.v.image_metadata = facet.image_result
        /\ facet.out.v.video_metadata = facet.video_result
        /\ facet.out.v.image_url =
              IF facet.image_result = NoResult THEN None ELSE facet.image_result.url
        /\ facet.out.v.video_url =
              IF facet.video_result = NoResult THEN None ELSE facet.video_result.url

(***************************************************************************)
(* Sessions.  Each client owns one AsyncSession; its transaction starts    *)
(* with its first statement and holds the rows it wrote (rows) and the     *)
(* primary keys it deleted (del) until commit or rollback.  A statement    *)
(* sees the committed rows and the transaction's own writes.               *)
(***************************************************************************)
Sessions == {"s1", "s2"}

MaxNow == 2        \* the clock readings of a run
MaxWrites == 2     \* the writing calls (save_news, delete_news) of a run

NoReq == [kind |-> "none"]

ClosedSession ==
    [pc |-> "closed", began |-> 0, rows |-> {}, del |-> {}, failed |-> FALSE,
     writes |-> 0, served |-> 0, news |-> NoArticle, existing |-> FALSE,
     again |-> FALSE, req |-> NoReq]

\* the session of s closed; writes counts the writing calls s has made so far
\* and served the HTTP requests handled on s
Closed(s) == [ClosedSession EXCEPT !.writes = sess[s].writes, !.served = sess[s].served]

Written ==
    LET sum[S \in SUBSET Sessions] ==
            IF S = {} THEN 0
            ELSE LET t == CHOOSE t \in S : TRUE IN sess[t].writes + sum[S \ {t}]
    IN  sum[Sessions]

Pks(rows) == {r.pk : r \in rows}

ViewOf(committed, tx) ==
    {r \in committed : r.pk \notin tx.del /\ r.pk \notin Pks(tx.rows)} \cup tx.rows

View(s) == ViewOf(db, sess[s])

\* the rows other open transactions have written or deleted and not yet committed
LockedBy(others) ==
    UNION {Pks(sess[t].rows) \cup sess[t].del : t \in others}

PendingSlugs(others) ==
    UNION {{r.slug : r \in sess[t].rows} : t \in others}

\* the transaction of s exists after this statement
Begun(s) == [sess[s] EXCEPT !.began = IF @ = 0 THEN now ELSE @]
Tick(s) == now' = IF sess[s].began = 0 THEN now + 1 ELSE now
CanRun(s) ==
    /\ sess[s].pc = "open"
    /\ ~sess[s].failed
    /\ sess[s].began # 0 \/ now <= MaxNow

\* async with self.async_session_maker() as session
OpenSession(s) ==
    /\ engine = "ready"
    /\ sess[s].pc = "closed"
    /\ sess' = [sess EXCEPT ![s] = [Closed(s) EXCEPT !.pc = "open"]]
    /\ last' = [op |-> "open", s |-> s]
    /\ UNCHANGED <<use_mock, facet, engine, db, next_pk, now>>

\* session.commit(), session.close()
Commit(s) ==
    /\ sess[s].pc = "open"
    /\ ~sess[s].failed
    /\ sess[s].req = NoReq
    /\ db' = View(s)
    /\ sess' = [sess EXCEPT ![s] = Closed(s)]
    /\ last' = [op |-> "commit", s |-> s]
    /\ UNCHANGED <<use_mock, facet, engine, next_pk, now>>

\* session.rollback(), session.close()
Rollback(s) ==
    /\ sess[s].pc = "open"
    /\ sess[s].req = NoReq
    /\ sess' = [sess EXCEPT ![s] = Closed(s)]
    /\ last' = [op |-> "rollback", s |-> s]
    /\ UNCHANGED <<use_mock, facet, engine, db, next_pk, now>>

(***************************************************************************)
(* NewsRepository.save_news in two steps: the lookup, then the branch with *)
(* its flush.  The flush of another session can fall between the two.      *)
(***************************************************************************)
\* the call before this one was a save_news of the same article by the same
\* client, and it returned
SavedJust(s, news) ==
    /\ last.op = "save_news"
    /\ last.s = s
    /\ last.out = "ret"
    /\ last.news = news

\* existing = await self.get_news_by_id(news.id)
SaveLookup(s, news) ==
    /\ CanRun(s)
    /\ LET existing == get_news_by_id(View(s), news.id)
       IN  IF existing.k = "raise"
           THEN /\ sess' = [sess EXCEPT ![s] = [Begun(s) EXCEPT !.writes = @ + 1]]
                /\ last' = [op |-> "save_news", s |-> s, news |-> news, branch |-> "lookup",
                            out |-> "raise", prev |-> NoRow, again |-> FALSE,
                            before |-> View(s)]
           ELSE /\ sess' = [sess EXCEPT ![s] =
                              [Begun(s) EXCEPT !.pc = "save_write", !.news = news,
                                               !.writes = @ + 1,
                                               !.existing = (existing.v # NoArticle),
                                               !.again = SavedJust(s, news)]]
                /\ last' = [op |-> "save_lookup", s |-> s]
    /\ Tick(s)
    /\ UNCHANGED <<use_mock, facet, engine, db, next_pk>>

\* a faulty variant of SaveFailed: the sessions share one transaction, which
\* the failure aborts
SaveFailedShared(s, branch) ==
    /\ sess' = [t \in Sessions |->
                  IF t = s
                  THEN [sess[t] EXCEPT !.pc = "open", !.failed = TRUE, !.rows = {}, !.del = {}]
                  ELSE [sess[t] EXCEPT !.rows = {}, !.del = {}]]
    /\ last' = [op |-> "save_news", s |-> s, news |-> sess[s].news, branch |-> branch,
                out |-> "raise", prev |-> NoRow, again |-> sess[s].again,
                before |-> View(s)]

SaveFailed(s, branch) ==
    /\ sess' = [sess EXCEPT ![s] = [@ EXCEPT !.pc = "open", !.failed = TRUE,
                                             !.rows = {}, !.del = {}]]
    /\ last' = [op |-> "save_news", s |-> s, news |-> sess[s].news, branch |-> branch,
                out |-> "raise", prev |-> NoRow, again |-> sess[s].again,
                before |-> View(s)]

SaveDone(s, branch, old, new) ==
    /\ sess' = [sess EXCEPT ![s] =
                  [@ EXCEPT !.pc = "open",
                            !.rows = {r \in @ : r.pk # new.pk} \cup {new}]]
    /\ last' = [op |-> "save_news", s |-> s, news |-> sess[s].news, branch |-> branch,
                out |-> "ret", prev |-> old, again |-> sess[s].again,
                before |-> View(s)]

\* the update branch: select ... scalar_one(), the assignments, flush
SaveUpdate(s) ==
    LET found == BySlug(View(s), sess[s].news.id)
    IN  IF Cardinality(found) # 1
        THEN SaveFailed(s, "update") /\ UNCHANGED next_pk
        ELSE LET row == CHOOSE r \in found : TRUE
                 new == UpdatedRow(row, sess[s].news, sess[s].began)
             IN  /\ row.pk \notin LockedBy(Sessions \ {s})
                 /\ IF NotNullViolation(new)
                    THEN SaveFailed(s, "update")
                    ELSE SaveDone(s, "update", row, new)
                 /\ UNCHANGED next_pk

\* the insert branch: NewsArticle(...), session.add, flush
SaveInsert(s) ==
    LET new == NewRow(sess[s].news, next_pk, sess[s].began)
    IN  /\ new.slug \notin PendingSlugs(Sessions \ {s})
        /\ next_pk' = next_pk + 1
        /\ IF NotNullViolation(new) \/ UniqueViolation(View(s), new.slug)
           THEN SaveFailed(s, "insert")
           ELSE SaveDone(s, "insert", NoRow, new)

\* the database fails the statement (connection lost, deadlock, timeout)
SaveDbError(s) ==
    /\ SaveFailed(s, IF sess[s].existing THEN "update" ELSE "insert")
    /\ UNCHANGED next_pk

SaveWrite(s) ==
    /\ sess[s].pc = "save_write"
    /\ \/ IF sess[s].existing THEN SaveUpdate(s) ELSE SaveInsert(s)
       \/ SaveDbError(s)
    /\ UNCHANGED <<use_mock, facet, engine, db, now>>

(***************************************************************************)
(* The reading calls and delete_news, each one statement                   *)
(***************************************************************************)
ReadFrame == UNCHANGED <<use_mock, facet, engine, db, next_pk>>

GetNewsById(s, article_id) ==
    /\ CanRun(s)
    /\ sess[s].req = NoReq
    /\ sess' = [sess EXCEPT ![s] = Begun(s)]
    /\ Tick(s)
    /\ last' = [op |-> "get_news_by_id", s |-> s, id |-> article_id,
                out |-> get_news_by_id(View(s), article_id)]
    /\ ReadFrame

GetAllNews(s, limit, offset) ==
    /\ CanRun(s)
    /\ sess[s].req = NoReq
    /\ sess' = [sess EXCEPT ![s] = Begun(s)]
    /\ Tick(s)
    /\ \E result \in get_all_news(View(s), limit, offset) :
         last' = [op |-> "get_all_news", s |-> s, limit |-> limit, offset |-> offset,
                  out |-> result]
    /\ ReadFrame

GetNewsCount(s) ==
    /\ CanRun(s)
    /\ sess[s].req = NoReq
    /\ sess' = [sess EXCEPT ![s] = Begun(s)]
    /\ Tick(s)
    /\ last' = [op |-> "get_news_count", s |-> s, out |-> get_news_count(View(s))]
    /\ ReadFrame

\* a faulty variant of delete_news: the DELETE carries no WHERE clause
delete_every_row(view, slug) ==
    IF BySlug(view, slug) = {} THEN [out |-> "false", gone |-> {}]
    ELSE [out |-> "true", gone |-> view]

\* what delete_news(slug) returns over the rows its session sees, and the rows
\* its flush deletes: scalar_one_or_none(), session.delete, flush
delete_news(view, slug) ==
    LET found == BySlug(view, slug)
    IN  IF Cardinality(found) > 1 THEN [out |-> "raise", gone |-> {}]
        ELSE IF found = {} THEN [out |-> "false", gone |-> {}]
        ELSE [out |-> "true", gone |-> found]

\* one call of delete_news; the DELETE waits for the rows other transactions
\* hold
DeleteNews(s, slug) ==
    /\ CanRun(s)
    /\ sess[s].req = NoReq
    /\ Written < MaxWrites
    /\ \E res \in {delete_news(View(s), slug)} :
         /\ Pks(res.gone) \cap LockedBy(Sessions \ {s}) = {}
         /\ sess' = [sess EXCEPT ![s] =
                       [Begun(s) EXCEPT !.writes = @ + 1,
                                        !.rows = {r \in @ : r.pk \notin Pks(res.gone)},
                                        !.del = @ \cup Pks(res.gone)]]
         /\ last' = [op |-> "delete_news", s |-> s, id |-> slug, out |-> res.out,
                     before |-> View(s)]
    /\ Tick(s)
    /\ ReadFrame

(***************************************************************************)
(* The repository used directly by two clients                             *)
(***************************************************************************)
RepoIds == {"u1", "u2"}
RepoArticles ==
    {FullArticle("u1"), SparseArticle("u1"), FullArticle("u2"), UnlabelledArticle("u2")}

RepoInit ==
    /\ use_mock = TRUE
    /\ facet = Idle
    /\ engine = "ready"
    /\ db = {}
    /\ next_pk = 1
    /\ now = 1
    /\ sess = [s \in Sessions |-> ClosedSession]
    /\ last = Idle

RepoNext ==
    \E s \in Sessions :
        \/ OpenSession(s)
        \/ Commit(s)
        \/ Rollback(s)
        \/ Written < MaxWrites /\ \E news \in RepoArticles : SaveLookup(s, news)
        \/ SaveWrite(s)
        \/ \E id \in RepoIds : GetNewsById(s, id)
        \/ GetNewsCount(s)
        \/ \E id \in RepoIds : DeleteNews(s, id)

SpecRepo == RepoInit /\ [][RepoNext]_vars

(***************************************************************************)
(* Properties of the repository, checked under SpecRepo                    *)
(***************************************************************************)
OnePerId(rows) == \A r1, r2 \in rows : r1.slug = r2.slug => r1 = r2

\* C6: upsert is idempotent on the identifier.  When save_news is called twice
\* in sequence by one client with the same article and the second call
\* returns, exactly one row has the identifier, and the second call leaves the
\* rows and count() as the first left them; in every reachable state the table,
\* and what each session sees of it, hold at most one row per identifier.
C6_UpsertIdempotent ==
    /\ OnePerId(db)
    /\ \A s \in Sessions : OnePerId(View(s))
    /\ (last.op = "save_news" /\ last.again /\ last.out = "ret") =>
          /\ Cardinality(BySlug(View(last.s), last.news.id)) = 1
          /\ View(last.s) = last.before
          /\ get_news_count(View(last.s)) = get_news_count(last.before)

\* the same article saved a second time, over the row the first call wrote
C6_Witness ==
    /\ last.op = "save_news" /\ last.again /\ last.out = "ret"
    /\ last.branch = "update"
    /\ last.prev \in View(last.s)
    /\ get_news_count(View(last.s)) >= 1

\* C23: the upsert is atomic with respect to a concurrent upsert of the same
\* identifier.  A save_news call whose lookup found no row, and whose write
\* comes after another session has stored a row with its identifier, succeeds
\* and leaves exactly one row with the identifier.
C23_ConcurrentUpsertsBothSucceed ==
    (/\ last.op = "save_news"
     /\ last.branch = "insert"
     /\ BySlug(last.before, last.news.id) # {}) =>
        /\ last.out = "ret"
        /\ Cardinality(BySlug(View(last.s), last.news.id)) = 1

\* the fields of an article that save_news stores and _to_output_model returns
ListedFields(a) ==
    <<a.title, a.body, a.source_url, a.publisher, a.published_at, a.summary, a.tags,
      a.relevance_score, a.context.social_sentiment, a.media.featured_image_url,
      a.media.related_video_url, a.media.media_justification,
      a.context.wikipedia_snippet, a.context.search_trend,
      a.geo.lat, a.geo.lng, a.geo.map_url>>

\* C7: an upsert is a full replacement.  After save_news(article) returns,
\* whether it inserted or updated, get_news_by_id(article.id) in the same
\* session returns a record whose title, body, source URL, publisher,
\* published date, summary, tags, relevance score, sentiment label, media URLs
\* and justification, context snippet, trend and geo fields equal the
\* article's, also where the article's value is absent.
C7_UpsertReplacesAllFields ==
    (last.op = "save_news" /\ last.out = "ret") =>
        LET got == get_news_by_id(View(last.s), last.news.id)
        IN  /\ got.k = "ret"
            /\ got.v # NoArticle
            /\ ListedFields(got.v) = ListedFields(last.news)

\* an article with every optional field absent written over a complete row
C7_Witness ==
    /\ last.op = "save_news" /\ last.out = "ret" /\ last.branch = "update"
    /\ last.prev # NoRow
    /\ last.prev.geo_lat.ty = "num" /\ last.prev.author # None
    /\ last.prev.featured_image_url # None /\ last.prev.wikipedia_snippet # None
    /\ last.news = SparseArticle("u1")
    /\ get_news_by_id(View(last.s), "u1").v.geo = EmptyGeo

(***************************************************************************)
(* Listing: get_all_news over tables of up to MaxRows rows, some of them   *)
(* ingested at the same instant                                            *)
(***************************************************************************)
MaxRows == 3
MaxAge == 1
MaxLimit == 2
MaxOffset == 2

PageRow(i, age) == NewRow(FullArticle("p" \o ToString(i)), i, 0 - age)

PageTables ==
    UNION {{{PageRow(i, ages[i]) : i \in 1..n} : ages \in [1..n -> 0..MaxAge]} :
             n \in 0..MaxRows}

PageInit ==
    /\ use_mock = TRUE
    /\ facet = Idle
    /\ engine = "ready"
    /\ db \in PageTables
    /\ next_pk = Cardinality(db) + 1
    /\ now = 1
    /\ sess = [s \in Sessions |-> ClosedSession]
    /\ last = Idle

PageNext ==
    \/ OpenSession("s1")
    \/ \E limit \in 0..MaxLimit, offset \in 0..MaxOffset : GetAllNews("s1", limit, offset)
    \/ Commit("s1")

SpecPage == PageInit /\ [][PageNext]_vars

NewerThan(rows, at) == Cardinality({r \in rows : r.ingested_at > at})
NotOlderThan(rows, at) == Cardinality({r \in rows : r.ingested_at >= at})

\* C8: for every table, limit L and offset O, get_all_news(L, O) returns at
\* most L articles: exactly those at positions O+1 to O+L of the stored
\* articles ordered by ingestion timestamp, newest first, in that order
\* (articles ingested at the same instant may take each other's positions).
C8_PageOfNewestFirst ==
    last.op = "get_all_news" =>
        LET out == last.out
            rows == View(last.s)
            n == Cardinality(rows)
            rest == IF n > last.offset THEN n - last.offset ELSE 0
        IN  /\ Len(out) <= last.limit
            /\ Len(out) = Min(last.limit, rest)
            /\ \A i \in 1..Len(out) :
                 /\ \E r \in rows : out[i] = to_output_model(r)
                 /\ NewerThan(rows, out[i].ingested_at) < last.offset + i
                 /\ last.offset + i <= NotOlderThan(rows, out[i].ingested_at)
            /\ \A i, j \in 1..Len(out) :
                 /\ i < j => out[i].ingested_at >= out[j].ingested_at
                 /\ i # j => out[i].id # out[j].id

\* the second and third of three articles, two of which share a timestamp
C8_Witness ==
    /\ last.op = "get_all_news" /\ last.offset = 1 /\ last.limit = 2
    /\ Cardinality(db) = 3
    /\ Len(last.out) = 2
    /\ last.out[1].ingested_at > last.out[2].ingested_at
    /\ \E r1, r2 \in db : r1 # r2 /\ r1.ingested_at = r2.ingested_at

(***************************************************************************)
(* Searching: search_news.  Texts and queries are sequences of characters; *)
(* ILIKE is PostgreSQL's: case-insensitive, % matches any run of           *)
(* characters, _ any one character, and a backslash takes the next         *)
(* character of the pattern literally.                                     *)
(***************************************************************************)
Lower(c) ==
    CASE c = "A" -> "a" [] c = "B" -> "b" [] c = "C" -> "c" [] OTHER -> c

RECURSIVE ILike(_, _)
ILike(text, pattern) ==
    IF pattern = <<>> THEN text = <<>>
    ELSE IF Head(pattern) = "%"
         THEN ILike(text, Tail(pattern)) \/ (text # <<>> /\ ILike(Tail(text), pattern))
    ELSE IF Head(pattern) = "\\" /\ Len(pattern) > 1
         THEN /\ text # <<>>
              /\ Lower(Head(text)) = Lower(pattern[2])
              /\ ILike(Tail(text), Tail(Tail(pattern)))
    ELSE /\ text # <<>>
         /\ Head(pattern) = "_" \/ Lower(Head(text)) = Lower(Head(pattern))
         /\ ILike(Tail(text), Tail(pattern))

\* the JSON text of a list of strings, which the cast of the tags column gives
RECURSIVE JsonItems(_)
JsonItems(tags) ==
    IF tags = <<>> THEN <<>>
    ELSE <<"\"">> \o Head(tags) \o <<"\"">>
         \o (IF Len(tags) > 1 THEN <<",", " ">> ELSE <<>>) \o JsonItems(Tail(tags))

JsonText(tags) == <<"[">> \o JsonItems(tags) \o <<"]">>

\* the where clause: or_ of the four ilike tests on f"%{query}%"
Matches(row, query) ==
    LET search_term == <<"%">> \o query \o <<"%">>
    IN  \/ ILike(row.title, search_term)
        \/ ILike(row.body, search_term)
        \/ ILike(row.summary, search_term)
        \/ ILike(JsonText(row.tags), search_term)

MostRelevant(rows) ==
    {r \in rows : \A x \in rows : ~FloatLt(r.relevance_score, x.relevance_score)}

\* the orderings ORDER BY relevance_score DESC allows (ties in any order)
RECURSIVE ByRelevance(_)
ByRelevance(rows) ==
    IF rows = {} THEN {<<>>}
    ELSE UNION {{<<r>> \o rest : rest \in ByRelevance(rows \ {r})} : r \in MostRelevant(rows)}

\* the results search_news can give.  tags.cast(str) hands the Python class str
\* to cast() where a SQL type is expected: cast is "text" when the statement is
\* built as a text cast and "error" when building it raises.
search_news(view, query, limit, cast) ==
    IF cast = "error" THEN {Raise("TypeError")}
    ELSE {Ret(MapSeq(Page(o, limit, 0))) :
            o \in ByRelevance({r \in view : Matches(r, query)})}

SearchNews(s, query, limit, cast) ==
    /\ CanRun(s)
    /\ sess[s].req = NoReq
    /\ sess' = [sess EXCEPT ![s] = Begun(s)]
    /\ Tick(s)
    /\ \E result \in search_news(View(s), query, limit, cast) :
         last' = [op |-> "search_news", s |-> s, query |-> query, limit |-> limit,
                  out |-> result]
    /\ ReadFrame

MaxQueryLen == 2
MaxSearchLimit == 2

RECURSIVE Strings(_, _)
Strings(alphabet, n) ==
    IF n = 0 THEN {<<>>}
    ELSE Strings(alphabet, n - 1)
         \cup {Append(w, c) : w \in {x \in Strings(alphabet, n - 1) : Len(x) = n - 1},
                              c \in alphabet}

SearchQueries == Strings({"a", "B", "_", "%"}, MaxQueryLen)

SearchArticle(id, title, body, tags, score) ==
    [FullArticle(id) EXCEPT !.title = title, !.body = body, !.summary = <<"s", "u", "m">>,
                            !.tags = tags, !.relevance_score = Fin(score)]

SearchRows ==
    {NewRow(SearchArticle("q1", <<"a", "b", "c">>, <<"x">>,
                          << <<"#", "t">>, <<"#", "u">>, <<"#", "v">> >>, 90), 1, 0),
     NewRow(SearchArticle("q2", <<"x">>, <<"A", "_", "C">>,
                          << <<"#", "t">>, <<"#", "u">>, <<"#", "v">> >>, 50), 2, 0),
     NewRow(SearchArticle("q3", <<"5", "0", "%">>, <<"x">>,
                          << <<"#", "b">>, <<"#", "u">>, <<"#", "a">> >>, 50), 3, 0)}

SearchInit ==
    /\ use_mock = TRUE
    /\ facet = Idle
    /\ engine = "ready"
    /\ db \in SUBSET SearchRows
    /\ next_pk = Cardinality(SearchRows) + 1
    /\ now = 1
    /\ sess = [s \in Sessions |-> ClosedSession]
    /\ last = Idle

SearchNext ==
    \/ OpenSession("s1")
    \/ \E query \in SearchQueries, limit \in 0..MaxSearchLimit, cast \in {"text", "error"} :
         SearchNews("s1", query, limit, cast)
    \/ Commit("s1")

SpecSearch == SearchInit /\ [][SearchNext]_vars

\* text contains query as a substring, letter case ignored
RECURSIVE StartsWithCI(_, _)
StartsWithCI(text, query) ==
    \/ query = <<>>
    \/ /\ text # <<>>
       /\ Lower(Head(text)) = Lower(Head(query))
       /\ StartsWithCI(Tail(text), Tail(query))

ContainsCI(text, query) ==
    \E i \in 1..Len(text) + 1 : StartsWithCI(SubSeq(text, i, Len(text)), query)

\* C9: for every table, query text q (also with the characters % or _) and
\* limit n, search_news(q, n) returns at most n articles, each of which
\* contains q as a case-insensitive substring of its title, body, summary or
\* tag list, ordered by relevance score descending.
C9_SearchFindsSubstring ==
    (last.op = "search_news" /\ last.out.k = "ret") =>
        LET out == last.out.v
        IN  /\ Len(out) <= last.limit
            /\ \A i \in 1..Len(out) :
                 \/ ContainsCI(out[i].title, last.query)
                 \/ ContainsCI(out[i].body, last.query)
                 \/ ContainsCI(out[i].summary, last.query)
                 \/ ContainsCI(JsonText(out[i].tags), last.query)
            /\ \A i, j \in 1..Len(out) :
                 i < j => ~FloatLt(out[i].relevance_score, out[j].relevance_score)

(***************************************************************************)
(* Deleting: delete_news among the other calls of the repository, by two   *)
(* clients, over a table that holds none, one or two articles              *)
(***************************************************************************)
DeleteRows == {NewRow(FullArticle("u1"), 1, 0), NewRow(FullArticle("u2"), 2, 0)}

DeleteInit ==
    /\ use_mock = TRUE
    /\ facet = Idle
    /\ engine = "ready"
    /\ db \in SUBSET DeleteRows
    /\ next_pk = Cardinality(DeleteRows) + 1
    /\ now = 1
    /\ sess = [s \in Sessions |-> ClosedSession]
    /\ last = Idle

DeleteNext ==
    \E s \in Sessions :
        \/ OpenSession(s)
        \/ Commit(s)
        \/ Rollback(s)
        \/ Written < MaxWrites /\ SaveLookup(s, SparseArticle("u1"))
        \/ SaveWrite(s)
        \/ GetNewsById(s, "u1")
        \/ GetAllNews(s, 1, 0)
        \/ SearchNews(s, <<"a">>, 1, "text")
        \/ GetNewsCount(s)
        \/ \E id \in RepoIds : DeleteNews(s, id)

SpecDelete == DeleteInit /\ [][DeleteNext]_vars

\* the step is a call of delete_news that returned: true exactly when its
\* session saw a row with the identifier, which is then the one row gone from
\* what the session sees; false with nothing changed; the committed table and
\* what the other sessions see are as before
DeleteStep ==
    (last'.op = "delete_news" /\ last'.out # "raise") =>
        LET s == last'.s
            before == View(s)
            after == ViewOf(db', sess'[s])
            stored == BySlug(before, last'.id)
        IN  /\ last'.out \in {"true", "false"}
            /\ (last'.out = "true") <=> (stored # {})
            /\ last'.out = "true" =>
                  /\ Cardinality(stored) = 1
                  /\ after = before \ stored
                  /\ get_news_by_id(after, last'.id) = Ret(NoArticle)
            /\ last'.out = "false" => after = before
            /\ db' = db
            /\ \A t \in Sessions \ {s} : ViewOf(db', sess'[t]) = View(t)

\* a committed row leaves the table only at the commit of a transaction that
\* deleted it; a transaction deletes a row only in a call of delete_news with
\* the identifier of that row, which returns true; a row keeps its identifier
StoredUntilDeleted ==
    /\ \A r \in db :
          BySlug(db', r.slug) = {} =>
              /\ last'.op = "commit"
              /\ r.pk \in sess[last'.s].del
    /\ \A s \in Sessions : \A pk \in sess'[s].del \ sess[s].del :
          /\ last'.op = "delete_news" /\ last'.s = s /\ last'.out = "true"
          /\ \E r \in View(s) : r.pk = pk /\ r.slug = last'.id
    /\ \A r1 \in db, r2 \in db' : r1.pk = r2.pk => r1.slug = r2.slug

\* every session that can issue a statement retrieves every committed article
\* its own transaction has not deleted
Retrievable ==
    \A s \in Sessions :
        (sess'[s].pc = "open" /\ ~sess'[s].failed) =>
            \E view \in {ViewOf(db', sess'[s])} :
                \A r \in db' :
                    r.pk \notin sess'[s].del =>
                        \E got \in {get_news_by_id(view, r.slug)} :
                            got.k = "ret" /\ got.v # NoArticle /\ got.v.id = r.slug

\* C17: delete_news(id) returns true exactly when a row with that identifier
\* was stored, and then removes that row and no other; it returns false and
\* leaves the table unchanged when no such row was stored; and a stored
\* article stays retrievable by get_news_by_id through every other operation
\* (upserts, reads, lists, searches, counts, commits and rollbacks of either
\* client) until delete_news is called with its identifier.
C17_DeleteRemovesOnlyItsRow ==
    [][DeleteStep /\ StoredUntilDeleted /\ Retrievable]_vars

\* one of two stored articles deleted by a client while the other client,
\* whose transaction is open, still retrieves both
C17_Witness ==
    /\ last.op = "delete_news" /\ last.out = "true" /\ last.id = "u1"
    /\ Cardinality(db) = 2
    /\ Cardinality(View(last.s)) = 1
    /\ get_news_by_id(View(last.s), "u2").v # NoArticle
    /\ \E t \in Sessions \ {last.s} :
          /\ sess[t].pc = "open" /\ sess[t].began # 0
          /\ get_news_by_id(View(t), "u1").v # NoArticle

(***************************************************************************)
(* ingestion_service.py: enrich_news and ingest_news.  A scenario sc holds *)
(* what the generative service and the search service answer to the calls  *)
(* of one ingestion.                                                       *)
(***************************************************************************)
\* the six facet calls in order; the first that raises ends the enrichment
enrich_news(mock, raw, sc) ==
    LET summary == generate_summary(mock, raw, sc.summary)
        tags == generate_tags(mock, raw, sc.tags)
        relevance_score == calculate_relevance_score(mock, raw, sc.score)
        media == discover_media(mock, raw, tags.v, sc.query, sc.api_key, sc.iresp, sc.vresp)
        context == extract_context(mock, raw, sc.context)
        geo == extract_geo(mock, raw, sc.geo)
    IN  CASE summary.k = "raise" -> summary
          [] context.k = "raise" -> context
          [] geo.k = "raise" -> geo
          [] OTHER ->
               Ret([summary |-> summary.v, tags |-> tags.v,
                    relevance_score |-> relevance_score.v, media |-> media.v,
                    context |-> context.v, geo |-> geo.v])

\* the calls discover_media makes: none in mock mode, else the query is derived
\* and then handed to the search client
discover_media_calls(mock) ==
    IF mock THEN <<>>
    ELSE <<"generate_media_search_query", "brave_search_service.discover_media">>

\* a faulty variant of enrich_news_calls: the geo is extracted before the media
\* are discovered
enrich_news_calls_geo_first(mock, raw, sc) ==
    <<"generate_summary", "generate_tags", "calculate_relevance_score", "extract_geo",
      "discover_media">> \o discover_media_calls(mock) \o <<"extract_context">>

\* the calls enrich_news makes, in their order; an operation that raises ends
\* the sequence
enrich_news_calls(mock, raw, sc) ==
    <<"generate_summary">>
    \o (IF generate_summary(mock, raw, sc.summary).k = "raise" THEN <<>>
        ELSE <<"generate_tags", "calculate_relevance_score", "discover_media">>
             \o discover_media_calls(mock)
             \o <<"extract_context">>
             \o (IF extract_context(mock, raw, sc.context).k = "raise" THEN <<>>
                 ELSE <<"extract_geo">>))

\* the calls ingest_news makes: enrich_news, FinalNewsOutput(...), save_news,
\* return final_output.  saved is "none" when save_news was not reached.
ingest_news_calls(enriching, assembled, saved) ==
    enriching
    \o (IF assembled.k = "raise" THEN <<>>
        ELSE <<"save_news">> \o (IF saved = "ret" THEN <<"return">> ELSE <<>>))

\* FinalNewsOutput(...): relevance_score is validated with ge=0.0, le=1.0, which
\* NaN fails too; id is a fresh uuid4, ingested_at the clock reading
FinalNewsOutput(raw, enriched, id, ts) ==
    LET score == enriched.relevance_score
    IN  IF score.k # "fin" \/ score.v < 0 \/ score.v > 100
        THEN Raise("ValidationError")
        ELSE Ret([id |-> id, title |-> raw.title, body |-> raw.body,
                  source_url |-> raw.source_url, publisher |-> raw.author,
                  published_at |-> raw.published_date, summary |-> enriched.summary,
                  tags |-> enriched.tags, relevance_score |-> score,
                  media |-> enriched.media, context |-> enriched.context,
                  geo |-> enriched.geo, ingested_at |-> ts])

\* a faulty variant: a failed save is logged and the record returned all the same
ingest_result_unsaved(assembled, saved) ==
    IF assembled.k = "raise" THEN Raise("Exception") ELSE assembled

\* ingest_news: except Exception -> raise Exception(...), else return final_output
ingest_result(assembled, saved) ==
    IF assembled.k = "raise" \/ saved = "raise" THEN Raise("Exception") ELSE assembled

\* the JSON body of HTTPException(500, detail=f"Failed to ingest news article: ...")
IngestFailure == [detail |-> "Failed to ingest news article: ..."]

\* the JSON body global_exception_handler answers with status 500
Unhandled == [error |-> "Internal Server Error", detail |-> "str(exc)", path |-> "url"]

\* a faulty variant: the id of the answer is a fresh one, not the record's
ingest_response_fresh_id(result) ==
    IF result.k = "raise" THEN [status |-> 500, data |-> NoArticle, body |-> IngestFailure]
    ELSE [status |-> 201, data |-> result.v,
          body |-> [status |-> "success",
                    message |-> "News article successfully ingested and enriched",
                    id |-> "uuid4()", data |-> result.v]]

\* POST /ingest: except Exception -> HTTPException(500), else 201 with
\* IngestionResponse(status, message, id=enriched_news.id, data=enriched_news);
\* data repeats the record of the body, NoArticle when there is none
ingest_response(result) ==
    IF result.k = "raise" THEN [status |-> 500, data |-> NoArticle, body |-> IngestFailure]
    ELSE [status |-> 201, data |-> result.v,
          body |-> [status |-> "success",
                    message |-> "News article successfully ingested and enriched",
                    id |-> result.v.id, data |-> result.v]]

\* Database.get_session, from the yield on: the calls made on the session when
\* the consumer resumes the generator (thrown = FALSE) and when it throws an
\* exception into it
get_session(thrown) ==
    IF thrown THEN <<"rollback", "close">> ELSE <<"commit", "close">>

\* a faulty variant of get_db: the session is committed whatever the handler did
get_db_commit_anyway(handler) == <<"commit", "close">>

\* get_db: async for session in database.get_session(): yield session.  After
\* a handler that returned, the loop resumes get_session.  An exception of the
\* handler leaves the loop without being thrown into get_session, whose
\* generator is then finalised at its yield: GeneratorExit passes the except
\* branch and the finally clause closes the session, which discards the open
\* transaction.
get_db(handler) ==
    IF handler = "ret" THEN get_session(FALSE) ELSE <<"close">>

(***************************************************************************)
(* main.py and api/v1/endpoints.py: the application.  engine is "down"     *)
(* while the process is not running, "none" when it runs without a session *)
(* maker, "unreachable" when Database.init has set one and create_tables   *)
(* failed, and "ready" when both went well.  Each request is handled on a   *)
(* slot s with a session of its own from get_db.                           *)
(***************************************************************************)
MaxRequests == 2

Served ==
    LET sum[S \in SUBSET Sessions] ==
            IF S = {} THEN 0
            ELSE LET t == CHOOSE t \in S : TRUE IN sess[t].served + sum[S \ {t}]
    IN  sum[Sessions]

\* a faulty variant of IdOf: the identifier is drawn once per slot
IdOfSlot(s, k) == "id-" \o s

\* str(uuid4()) of the k-th request handled on slot s
IdOf(s, k) == "id-" \o s \o "-" \o ToString(k)

Text(doc) == [k |-> "text", pre |-> <<>>, doc |-> doc, post |-> <<>>]
Failing(doc) == [k |-> "raise", pre |-> <<>>, doc |-> doc, post |-> <<>>]
Silent(doc) == [k |-> "none", pre |-> <<>>, doc |-> doc, post |-> <<>>]

NoTags == [ty |-> "empty", items |-> <<>>]
NoContext ==
    [ty |-> "empty", snippet |-> [ty |-> "absent", v |-> 0], sentiment |-> "<absent>",
     trend |-> "<absent>"]
NoGeo == [ty |-> "empty", lat |-> NoneNum, lng |-> NoneNum]
ContextDoc(snippet, sentiment, trend) ==
    [ty |-> "obj", snippet |-> snippet, sentiment |-> sentiment, trend |-> trend]
GeoDoc(lat, lng) == [ty |-> "obj", lat |-> lat, lng |-> lng]
Found == [k |-> "ok", results |-> 1, url |-> "https://found", title |-> Str(Words(1))]

\* every call answered well
GoodScenario ==
    [summary |-> Text([ty |-> "prose"]),
     tags |-> Text([ty |-> "list", items |-> TagNames(MinTags + 1)]),
     score |-> Text([ty |-> "num", v |-> 50]),
     query |-> Text([ty |-> "words", words |-> Words(1)]),
     api_key |-> TRUE, iresp |-> Found, vresp |-> Found,
     context |-> Text(ContextDoc([ty |-> "str", v |-> MinSnippetLength], "positive", "rising")),
     geo |-> Text(GeoDoc(Num(0), Num(0)))]

\* one call answered otherwise: each step that can raise does (summary,
\* context, geo, the assembly on a NaN score, the save on a null sentiment),
\* and a fallback is taken where a call fails without raising (tags)
LiveScenarios ==
    {GoodScenario}
    \cup {[GoodScenario EXCEPT !.summary = r] : r \in {Failing([ty |-> "empty"])}}
    \cup {[GoodScenario EXCEPT !.tags = r] : r \in {Failing(NoTags)}}
    \cup {[GoodScenario EXCEPT !.score = r] : r \in {Text([ty |-> "nan", v |-> 0])}}
    \cup {[GoodScenario EXCEPT !.context = r] :
            r \in {Failing(NoContext),
                   Text(ContextDoc([ty |-> "null", v |-> 0], "<null>", "<null>"))}}
    \cup {[GoodScenario EXCEPT !.geo = r] :
            r \in {Text(GeoDoc(StrNum, Num(0)))}}

\* in mock mode no call is made
MockScenario ==
    [summary |-> NoCall, tags |-> NoCall, score |-> NoCall, query |-> NoCall,
     api_key |-> FALSE, iresp |-> Found, vresp |-> Found, context |-> NoCall,
     geo |-> NoCall]

Scenarios(mock) == IF mock THEN {MockScenario} ELSE LiveScenarios

\* RawNewsInput
RawInputs ==
    {[title |-> <<"K", "e", "n", "y", "a">>, body |-> Words(2),
      source_url |-> "https://src/k", author |-> None, published_date |-> None]}

\* in mock mode nothing but the article decides the enrichment: two titles,
\* a body shorter and a body longer than the summary
MockRawInputs ==
    {[title |-> tb[1], body |-> tb[2], source_url |-> "https://src/k", author |-> None,
      published_date |-> None] :
        tb \in {<< <<"K", "e", "n", "y", "a">>, Words(2) >>,
                << <<"K", "e", "n", "y", "a">>, Words(MaxBodyWords) >>,
                << <<"M", "a", "l", "i">>, Words(MaxBodyWords) >>}}

RawInputsIn(mock) == IF mock THEN MockRawInputs ELSE RawInputs

AppFrame == UNCHANGED <<use_mock, facet, next_pk, now>>

\* startup_event: Database.init and create_tables when a URL is configured;
\* a failure of either is printed and the application runs on
Startup(url, init, tables) ==
    /\ engine = "down"
    /\ engine' = IF ~url \/ init = "raise" THEN "none"
                 ELSE IF tables = "raise" THEN "unreachable"
                 ELSE "ready"
    /\ last' = [op |-> "startup"]
    /\ UNCHANGED <<db, sess>>
    /\ AppFrame

\* shutdown_event, once the requests in flight have ended
Shutdown ==
    /\ engine # "down"
    /\ \A s \in Sessions : sess[s].pc = "closed"
    /\ engine' = "down"
    /\ last' = [op |-> "shutdown"]
    /\ UNCHANGED <<db, sess>>
    /\ AppFrame

CanServe(s) ==
    /\ engine # "down"
    /\ sess[s].pc = "closed"
    /\ Served < MaxRequests

Answered(s) == [Closed(s) EXCEPT !.served = @ + 1]

\* POST /ingest up to the save: get_db, enrich_news, FinalNewsOutput(...)
IngestStart(s, raw, sc) ==
    /\ CanServe(s)
    /\ IF engine = "none"
       THEN \* get_session raises RuntimeError: the global handler answers
            /\ sess' = [sess EXCEPT ![s] = Answered(s)]
            /\ last' = [op |-> "POST /ingest", s |-> s, raised |-> "get_db",
                        status |-> 500, id |-> None, data |-> NoArticle,
                        body |-> Unhandled, handed |-> NoArticle, before |-> db,
                        handler |-> "none", session |-> <<>>, calls |-> <<>>]
       ELSE \E id \in {IdOf(s, sess[s].served + 1)},
               enriched \in {enrich_news(use_mock, raw, sc)},
               enriching \in {enrich_news_calls(use_mock, raw, sc)} :
            \E assembled \in {IF enriched.k = "raise" THEN enriched
                              ELSE FinalNewsOutput(raw, enriched.v, id, now)} :
              IF assembled.k = "raise"
              THEN \E response \in {ingest_response(ingest_result(assembled, "none"))} :
                     /\ sess' = [sess EXCEPT ![s] = Answered(s)]
                     /\ last' = [op |-> "POST /ingest", s |-> s,
                                 raised |-> IF enriched.k = "raise" THEN "enrich"
                                            ELSE "assembly",
                                 status |-> response.status, id |-> None,
                                 data |-> response.data, body |-> response.body,
                                 handed |-> NoArticle, before |-> db,
                                 handler |-> "raise", session |-> get_db("raise"),
                                 calls |-> ingest_news_calls(enriching, assembled, "none")]
              ELSE IF engine = "unreachable"
              THEN \* the first statement of save_news raises
                   \E response \in {ingest_response(ingest_result(assembled, "raise"))} :
                     /\ sess' = [sess EXCEPT ![s] = Answered(s)]
                     /\ last' = [op |-> "POST /ingest", s |-> s, raised |-> "save",
                                 status |-> response.status, id |-> id,
                                 data |-> response.data, body |-> response.body,
                                 handed |-> assembled.v, before |-> db,
                                 handler |-> "raise", session |-> get_db("raise"),
                                 calls |-> ingest_news_calls(enriching, assembled, "raise")]
              ELSE /\ sess' = [sess EXCEPT ![s] =
                                 [Answered(s) EXCEPT !.pc = "open",
                                     !.req = [kind |-> "ingest", assembled |-> assembled,
                                              enriching |-> enriching,
                                              raw |-> raw, sc |-> sc]]]
                   /\ last' = [op |-> "ingest", s |-> s]
    /\ UNCHANGED <<engine, db>>
    /\ AppFrame

Ingesting(s) == sess[s].pc # "closed" /\ sess[s].req # NoReq

\* save_news has run for the record of the request on s
SaveOver(s) ==
    /\ sess[s].pc = "open"
    /\ sess[s].failed \/ sess[s].news # NoArticle

\* await self.repository.save_news(final_output)
IngestSave(s) ==
    /\ Ingesting(s)
    /\ ~SaveOver(s)
    /\ \/ SaveLookup(s, sess[s].req.assembled.v)
       \/ SaveWrite(s)

\* the end of POST /ingest: the answer, then get_session commits after a
\* handler that returned and closes the session after one that raised
IngestEnd(s) ==
    /\ Ingesting(s)
    /\ SaveOver(s)
    /\ LET saved == IF sess[s].failed THEN "raise" ELSE "ret"
           response == ingest_response(ingest_result(sess[s].req.assembled, saved))
           handler == IF response.status = 201 THEN "ret" ELSE "raise"
           session == get_db(handler)
       IN  /\ db' = IF \E i \in DOMAIN session : session[i] = "commit" THEN View(s) ELSE db
           /\ last' = [op |-> "POST /ingest", s |-> s,
                       raised |-> IF sess[s].failed THEN "save" ELSE "none",
                       status |-> response.status, id |-> sess[s].req.assembled.v.id,
                       data |-> response.data, body |-> response.body,
                       handed |-> sess[s].news, before |-> db,
                       handler |-> handler, session |-> session,
                       calls |-> ingest_news_calls(sess[s].req.enriching,
                                                   sess[s].req.assembled, saved)]
    /\ sess' = [sess EXCEPT ![s] = Closed(s)]
    /\ UNCHANGED engine
    /\ AppFrame

\* GET /news/{id}: get_db, the lookup, 404 when it finds nothing; without a
\* session maker get_session raises, without a reachable database the select
GetNews(s, id) ==
    /\ CanServe(s)
    /\ sess' = [sess EXCEPT ![s] = Answered(s)]
    /\ IF engine # "ready"
       THEN last' = [op |-> "GET /news/{id}", s |-> s, id |-> id, status |-> 500,
                     data |-> NoArticle, before |-> db,
                     handler |-> IF engine = "none" THEN "none" ELSE "raise",
                     session |-> IF engine = "none" THEN <<>> ELSE get_db("raise")]
       ELSE LET news == get_news_by_id(db, id)
                handler == IF news.k = "raise" \/ news.v = NoArticle THEN "raise" ELSE "ret"
            IN  last' = [op |-> "GET /news/{id}", s |-> s, id |-> id,
                         status |-> IF news.k = "raise" THEN 500
                                    ELSE IF news.v = NoArticle THEN 404 ELSE 200,
                         data |-> IF news.k = "raise" THEN NoArticle ELSE news.v,
                         before |-> db, handler |-> handler, session |-> get_db(handler)]
    /\ UNCHANGED <<engine, db>>
    /\ AppFrame

\* RawNewsInput of a JSON body: title and body are required and str,
\* source_url is required and an HttpUrl
ValidRaw(payload) ==
    /\ payload.title.ty = "str"
    /\ payload.body.ty = "str"
    /\ payload.source_url.scheme \in {"http", "https"}

\* a faulty variant of ValidPage: the upper bound of limit is not enforced
ValidPage_no_le(limit, offset) == limit >= 1 /\ offset >= 0

\* Query(default=50, ge=1, le=100) and Query(default=0, ge=0)
ValidPage(limit, offset) == limit >= 1 /\ limit <= 100 /\ offset >= 0

\* the JSON body of a RequestValidationError
Unprocessable == [detail |-> "validation errors"]

\* the JSON body of HTTPException(500, detail=f"Failed to retrieve news list: ...")
ListFailure == [detail |-> "Failed to retrieve news list: ..."]

\* bodies RawNewsInput rejects: a member missing or no string, a URL that is
\* no http(s) URL
InvalidPayloads ==
    LET good == [title |-> Str(<<"K">>), body |-> Str(Words(2)),
                 source_url |-> [scheme |-> "https", rest |-> "src/k"]]
    IN  {[good EXCEPT !.title = [ty |-> "absent", s |-> <<>>]],
         [good EXCEPT !.body = [ty |-> "num", s |-> <<>>]],
         [good EXCEPT !.source_url = [scheme |-> "", rest |-> "src/k"]]}

\* limit and offset of GET /news: on and one beyond each edge of the ranges
PageQueries == {<<0, 0>>, <<1, 0>>, <<100, 0>>, <<101, 0>>, <<1, -1>>}

\* POST /ingest with a body RawNewsInput rejects.  FastAPI solves the
\* sub-dependency get_db before it validates the body: without a session
\* maker get_session raises first (500); otherwise the session is opened, the
\* body is rejected with 422 before the handler runs, and the session is
\* closed with nothing done in it.  calls are the enrichment and repository
\* calls of the request.
IngestInvalid(s, payload) ==
    /\ CanServe(s)
    /\ ~ValidRaw(payload)
    /\ sess' = [sess EXCEPT ![s] = Answered(s)]
    /\ last' = [op |-> "rejected", request |-> "POST /ingest", s |-> s,
                status |-> IF engine = "none" THEN 500 ELSE 422,
                body |-> IF engine = "none" THEN Unhandled ELSE Unprocessable,
                calls |-> <<>>, before |-> db, handler |-> "none",
                session |-> IF engine = "none" THEN <<>> ELSE <<"close">>]
    /\ UNCHANGED <<engine, db>>
    /\ AppFrame

\* GET /news?limit=&offset=: get_db, the validation of limit and offset, then
\* get_all_news and get_news_count in the session of the request
ListNews(s, limit, offset) ==
    /\ CanServe(s)
    /\ sess' = [sess EXCEPT ![s] = Answered(s)]
    /\ \E answer \in
           IF engine = "none"
           THEN {[status |-> 500, body |-> Unhandled, calls |-> <<>>,
                  handler |-> "none", session |-> <<>>]}
           ELSE IF ~ValidPage(limit, offset)
           THEN {[status |-> 422, body |-> Unprocessable, calls |-> <<>>,
                  handler |-> "none", session |-> <<"close">>]}
           ELSE IF engine = "unreachable"
           THEN {[status |-> 500, body |-> ListFailure, calls |-> <<"get_all_news">>,
                  handler |-> "raise", session |-> get_db("raise")]}
           ELSE {[status |-> 200, handler |-> "ret", session |-> get_db("ret"),
                  body |-> [total |-> get_news_count(db),
                            items |-> [i \in 1..Len(items) |-> items[i].id]],
                  calls |-> <<"get_all_news", "get_news_count">>] :
                    items \in get_all_news(db, limit, offset)} :
         last' = [op |-> "GET /news", s |-> s, limit |-> limit, offset |-> offset,
                  status |-> answer.status, body |-> answer.body,
                  calls |-> answer.calls, before |-> db,
                  handler |-> answer.handler, session |-> answer.session]
    /\ UNCHANGED <<engine, db>>
    /\ AppFrame

\* the id of the first article a client can have ingested, and one never given
RequestIds == {IdOf("s1", 1), "id-unknown"}

Init ==
    /\ use_mock \in BOOLEAN
    /\ facet = Idle
    /\ engine = "down"
    /\ db = {}
    /\ next_pk = 1
    /\ now = 1
    /\ sess = [s \in Sessions |-> ClosedSession]
    /\ last = Idle

Next ==
    \/ \E url \in BOOLEAN, init \in {"ret", "raise"}, tables \in {"ret", "raise"} :
         Startup(url, init, tables)
    \/ Shutdown
    \/ \E s \in Sessions :
         \/ \E raw \in RawInputsIn(use_mock), sc \in Scenarios(use_mock) :
              IngestStart(s, raw, sc)
         \/ IngestSave(s)
         \/ IngestEnd(s)
         \/ \E id \in RequestIds : GetNews(s, id)
         \/ \E payload \in InvalidPayloads : IngestInvalid(s, payload)
         \/ \E q \in PageQueries : ListNews(s, q[1], q[2])

Spec == Init /\ [][Next]_vars

(***************************************************************************)
(* Properties of the application                                           *)
(***************************************************************************)
EnrichedFields == {"summary", "tags", "relevance_score", "media", "context", "geo"}

\* the record carries every enriched field, with a score FinalNewsOutput accepts
Complete(data) ==
    /\ data # NoArticle
    /\ EnrichedFields \subseteq DOMAIN data
    /\ data.relevance_score.k = "fin"
    /\ data.relevance_score.v >= 0
    /\ data.relevance_score.v <= 100
    /\ {"search_query", "featured_image_url", "media_justification"} \subseteq DOMAIN data.media
    /\ {"wikipedia_snippet", "social_sentiment", "search_trend"} \subseteq DOMAIN data.context
    /\ {"lat", "lng", "map_url"} \subseteq DOMAIN data.geo

\* C1: ingestion is all-or-nothing.  When the request to POST /ingest has been
\* answered and its session has ended: if get_db, an enrichment step, the
\* assembly of the record or the save raised, the answer is an error (500)
\* carrying no record, the committed table is what it was and holds no row of
\* that article; and an answer that carries a record (201) followed a run in
\* which nothing raised and carries summary, tags, relevance score, media,
\* context and geo.
C1_IngestAllOrNothing ==
    last.op = "POST /ingest" =>
        /\ sess[last.s].pc = "closed"
        /\ last.raised # "none" =>
              /\ last.status = 500
              /\ last.data = NoArticle
              /\ db = last.before
              /\ \A r \in db : r.slug # last.id
        /\ last.status = 201 =>
              /\ last.raised = "none"
              /\ Complete(last.data)
        /\ last.status \in {201, 500}

\* a save that raised after another article had been stored: answered 500
C1_Witness ==
    /\ last.op = "POST /ingest"
    /\ last.raised = "save"
    /\ last.status = 500
    /\ db # {}
    /\ \A r \in db : r.slug # last.id

\* the enrichment values of a stored row
Enrichment(row) ==
    [summary |-> row.summary, tags |-> row.tags, relevance_score |-> row.relevance_score,
     lat |-> row.geo_lat, lng |-> row.geo_lng, map_url |-> row.map_url]

\* C12: in mock mode every ingest that returns a record returns summary = the
\* first 30 whitespace-separated words of the body followed by "...", tags =
\* ["#Africa", "#News", "#Technology"], relevance_score = 0.7 (70 hundredths)
\* and geo = (-1.286389, 36.817223) with the maps URL of that point; and the
\* articles stored with the same body, whatever their title and however often
\* ingested, carry the same enrichment values.
C12_MockEnrichmentIsFixed ==
    (use_mock /\ last.op = "POST /ingest" /\ last.status = 201) =>
        /\ last.data.summary = join(Prefix(split(last.data.body), 30)) \o <<"...">>
        /\ last.data.tags = <<"#Africa", "#News", "#Technology">>
        /\ last.data.relevance_score = Fin(70)
        /\ last.data.geo = Geo(Num(-1286389), Num(36817223),
                               MapsUrl(Num(-1286389), Num(36817223)))
        /\ \A r, q \in db : r.body = q.body => Enrichment(r) = Enrichment(q)
        /\ \E r \in db : r.slug = last.id /\ r.summary = last.data.summary

\* a second article with another title and the same body of more than 30
\* words was ingested in mock mode
C12_Witness ==
    /\ use_mock
    /\ last.op = "POST /ingest"
    /\ last.status = 201
    /\ Len(split(last.data.body)) > 30
    /\ Len(split(last.data.summary)) = 30
    /\ \E r, q \in db : r.title # q.title /\ r.body = q.body /\ q.slug = last.id

\* C15: POST /ingest with a well-formed body answers 201 with status, message,
\* id and data, where id = data.id and data is the record that was handed to
\* save_news and is stored, exactly when ingest did not raise; whenever ingest
\* raises it answers 500 with an error detail string; it never answers 201
\* for a record that was not handed to the repository.
C15_IngestAnswers ==
    last.op = "POST /ingest" =>
        /\ last.status = 201 <=> last.raised = "none"
        /\ last.status = 201 =>
              /\ DOMAIN last.body = {"status", "message", "id", "data"}
              /\ last.body.id = last.body.data.id
              /\ last.handed # NoArticle
              /\ last.body.data = last.handed
              /\ \E r \in db : r = NewRow(last.body.data, r.pk, r.ingested_at)
        /\ last.raised # "none" =>
              /\ last.status = 500
              /\ "detail" \in DOMAIN last.body
              /\ "data" \notin DOMAIN last.body

\* the second article of a run answered 201 in live mode, both stored
C15_Witness ==
    /\ last.op = "POST /ingest"
    /\ ~use_mock
    /\ last.status = 201
    /\ last.body.id = last.id
    /\ last.body.data = last.handed
    /\ Cardinality(db) = 2
    /\ \E r \in db : r.slug = last.body.id

\* C16: a request that fails validation (a POST /ingest body without title,
\* without a string body or without a valid source URL; a GET /news with limit
\* outside [1, 100] or offset below 0) is rejected before any enrichment call
\* and before any repository call is made, and the stored articles are what
\* they were.
C16_InvalidRequestsTouchNothing ==
    (\/ last.op = "rejected"
     \/ /\ last.op = "GET /news"
        /\ (last.limit < 1 \/ last.limit > 100 \/ last.offset < 0)) =>
        /\ last.status \in {422, 500}
        /\ last.calls = <<>>
        /\ db = last.before
        /\ sess[last.s].pc = "closed"
        /\ sess[last.s].rows = {}

\* GET /news?limit=101 rejected with 422 while articles are stored
C16_Witness ==
    /\ last.op = "GET /news"
    /\ last.limit = 101
    /\ last.offset = 0
    /\ last.status = 422
    /\ last.calls = <<>>
    /\ engine = "ready"
    /\ db # {}
    /\ db = last.before

FacetOrder ==
    <<"generate_summary", "generate_tags", "calculate_relevance_score", "discover_media",
      "extract_context", "extract_geo">>

\* the positions of call c in a sequence of calls
At(calls, c) == {i \in DOMAIN calls : calls[i] = c}

\* C21: within one ingest call the facet operations are invoked in the order
\* generate_summary, generate_tags, calculate_relevance_score, discover_media,
\* extract_context, extract_geo, each once (a call that a raising operation
\* ends invokes the operations up to that one, each once, in this order);
\* inside discover_media the search query is derived before the search client
\* is queried; save_news is invoked at most once, only after all six facets
\* have returned, and exactly once in a call where nothing before it raised;
\* and the record is returned only after save_news has returned.
C21_FacetsThenSaveThenReturn ==
    (last.op = "POST /ingest" /\ last.handler # "none") =>
        LET calls == last.calls
            IsFacet(c) == \E i \in DOMAIN FacetOrder : FacetOrder[i] = c
            facets == SelectSeq(calls, IsFacet)
            query == At(calls, "generate_media_search_query")
            search == At(calls, "brave_search_service.discover_media")
            save == At(calls, "save_news")
            return == At(calls, "return")
        IN  /\ Len(facets) >= 1
            /\ facets = SubSeq(FacetOrder, 1, Len(facets))
            /\ Cardinality(query) <= 1 /\ Cardinality(search) <= 1
            /\ Cardinality(query) = Cardinality(search)
            /\ \A q \in query, b \in search :
                  /\ q < b
                  /\ \A d \in At(calls, "discover_media") : d < q
                  /\ \A e \in At(calls, "extract_context") : b < e
            /\ Cardinality(save) <= 1
            /\ save # {} =>
                  /\ facets = FacetOrder
                  /\ \A v \in save : \A i \in DOMAIN calls : IsFacet(calls[i]) => i < v
            /\ last.raised \in {"none", "save"} => Cardinality(save) = 1
            /\ Cardinality(return) <= 1
            /\ \A t \in return : t = Len(calls) /\ \E v \in save : v < t
            /\ (return # {}) <=> (last.status = 201)
            /\ last.status = 201 => facets = FacetOrder
            /\ (last.status = 201 /\ ~use_mock) => query # {}

\* a live ingest answered 201: ten calls, from generate_summary to the return
C21_Witness ==
    /\ last.op = "POST /ingest"
    /\ ~use_mock
    /\ last.status = 201
    /\ Len(last.calls) = 10
    /\ last.calls[5] = "generate_media_search_query"
    /\ last.calls[9] = "save_news"

\* the step ends a successful ingest: its identifier is carried by no stored
\* row and by no other ingest call under way, its save took the insert branch,
\* every row stored before is still stored as it was, and count() is one
\* higher; every other step leaves the table as it is
IngestAddsOneRow ==
    IF last'.op = "POST /ingest" /\ last'.status = 201
    THEN LET s == last'.s
         IN  /\ \A r \in db : r.slug # last'.id
             /\ \A t \in Sessions \ {s} :
                   sess[t].req # NoReq => sess[t].req.assembled.v.id # last'.id
             /\ ~sess[s].existing
             /\ db \subseteq db'
             /\ get_news_count(db') = get_news_count(db) + 1
             /\ \E r \in db' \ db : r.slug = last'.id
    ELSE db' = db

\* C22: every ingest call generates an identifier that differs from the
\* identifier of every stored article and of every other ingest call, so a
\* successful ingest takes the insert branch of save_news, overwrites no
\* stored article and raises count() by exactly one; no other request changes
\* the table, so that after n successful ingests count() = n.
C22_FreshIdInsertsOneRow == [][IngestAddsOneRow]_vars

\* two ingests answered 201, the second while the row of the first is stored
C22_Witness ==
    /\ last.op = "POST /ingest"
    /\ last.status = 201
    /\ get_news_count(db) = 2
    /\ get_news_count(last.before) = 1
    /\ \A r \in last.before : r.slug # last.id

\* a step of one request leaves the session, the pending writes and the
\* request of every other slot as they are, and removes or alters no stored
\* row; an ingest answered 201 returns the record that enrich_news and
\* FinalNewsOutput give for its own input and vendor replies, and stores it;
\* an ingest answered 500 stores nothing
IngestsIndependent ==
    /\ \A t \in Sessions :
          ("s" \in DOMAIN last' /\ last'.s # t) => sess'[t] = sess[t]
    /\ db \subseteq db'
    /\ (last'.op = "POST /ingest" /\ last'.status = 201) =>
          \E req \in {sess[last'.s].req} :
          \E enriched \in {enrich_news(use_mock, req.raw, req.sc)} :
          \E alone \in {FinalNewsOutput(req.raw, enriched.v, last'.id,
                                        last'.data.ingested_at)} :
              /\ alone.k = "ret"
              /\ last'.data = alone.v
              /\ \E r \in db' \ db :
                    /\ r.slug = last'.id
                    /\ ListedFields(to_output_model(r)) = ListedFields(alone.v)
    /\ (last'.op = "POST /ingest" /\ last'.status = 500) => db' = db

\* C24: concurrent ingest requests share no mutable state other than the
\* table.  In every interleaving of two ingest calls each call returns the
\* record it returns when run alone with the same vendor replies, the records
\* are stored under distinct identifiers, and the failure of one call neither
\* fails the other nor removes or alters the other's row.
C24_IngestsShareOnlyTheTable == [][IngestsIndependent]_vars

\* an ingest whose save failed while the ingest on the other slot holds its
\* written, uncommitted row
C24_Witness ==
    /\ last.op = "POST /ingest"
    /\ last.status = 500
    /\ last.raised = "save"
    /\ \E t \in Sessions \ {last.s} :
          /\ sess[t].pc = "open" /\ ~sess[t].failed
          /\ sess[t].req # NoReq
          /\ \E r \in sess[t].rows : r.slug = sess[t].req.assembled.v.id

\* C27: the ingestion timestamp stored for an article, which get_news_by_id
\* and get_all_news return for it, equals the ingested_at of the record that
\* the ingest assembled and returned.
C27_StoredTimestampIsReturnedOne ==
    (last.op = "POST /ingest" /\ last.status = 201) =>
        /\ \A r \in db : r.slug = last.id => r.ingested_at = last.data.ingested_at
        /\ get_news_by_id(db, last.id).v.ingested_at = last.data.ingested_at
        /\ \A page \in get_all_news(db, Cardinality(db), 0) :
              \A i \in DOMAIN page :
                  page[i].id = last.id => page[i].ingested_at = last.data.ingested_at

\* C10: GET /news/{id} with an identifier no stored row carries is answered 404,
\* never with a server error, whether or not the database was initialised at
\* startup, and it changes no stored row.
C10_UnknownIdIsNotFound ==
    (last.op = "GET /news/{id}" /\ \A r \in last.before : r.slug # last.id) =>
        /\ last.status = 404
        /\ last.data = NoArticle
        /\ db = last.before

(***************************************************************************)
(* db/database.py: the Database manager on its own.  engine stands for the *)
(* pair engine / async_session_maker, which init assigns and close clears  *)
(* together.  last.log is the list of the calls made on the manager so far. *)
(***************************************************************************)
MaxManagerOps == 5

\* a faulty variant of close: the engine is disposed and kept
close_keeps_engine(e) == e

\* Database.close: the engine attribute after the call
close(e) == IF e # "none" THEN "none" ELSE e

\* Database.init: url is whether database_url or settings.database_url is a
\* non-empty text, created the outcome of create_async_engine
database_init(e, url, created) ==
    IF ~url THEN [out |-> Raise("ValueError"), engine |-> e]
    ELSE IF created = "raise" THEN [out |-> Raise("ArgumentError"), engine |-> e]
    ELSE [out |-> Ret(None), engine |-> "ready"]

\* Database.create_tables; conn is the outcome of engine.begin() / run_sync
create_tables(e, conn) ==
    IF e = "none" THEN Raise("RuntimeError")
    ELSE IF conn = "raise" THEN Raise("OperationalError")
    ELSE Ret(None)

drop_tables(e, conn) ==
    IF e = "none" THEN Raise("RuntimeError")
    ELSE IF conn = "raise" THEN Raise("OperationalError")
    ELSE Ret(None)

\* Database.get_session iterated by a caller whose body returns or raises
database_get_session(e, thrown) ==
    IF e = "none"
    THEN [out |-> Raise("RuntimeError"), yielded |-> FALSE, session |-> <<>>]
    ELSE [out |-> IF thrown THEN Raise("Exception") ELSE Ret(None),
          yielded |-> TRUE, session |-> get_session(thrown)]

\* Database(): database = Database()
Constructed ==
    [op |-> "Database", engine |-> "none", out |-> Ret(None), yielded |-> FALSE,
     session |-> <<>>, log |-> <<>>]

Called(op, out, yielded, session) ==
    [op |-> op, engine |-> engine, out |-> out, yielded |-> yielded,
     session |-> session, log |-> Append(last.log, [op |-> op, k |-> out.k])]

ManagerFrame == UNCHANGED <<use_mock, facet, next_pk, now, sess>>

CanCall == Len(last.log) < MaxManagerOps

DatabaseInit(url, created) ==
    /\ CanCall
    /\ \E res \in {database_init(engine, url, created)} :
          /\ engine' = res.engine
          /\ last' = Called("init", res.out, FALSE, <<>>)
    /\ UNCHANGED db
    /\ ManagerFrame

CreateTables(conn) ==
    /\ CanCall
    /\ last' = Called("create_tables", create_tables(engine, conn), FALSE, <<>>)
    /\ UNCHANGED <<engine, db>>
    /\ ManagerFrame

\* Base.metadata.drop_all removes the table and its rows
DropTables(conn) ==
    /\ CanCall
    /\ \E out \in {drop_tables(engine, conn)} :
          /\ last' = Called("drop_tables", out, FALSE, <<>>)
          /\ db' = IF out.k = "ret" THEN {} ELSE db
    /\ UNCHANGED engine
    /\ ManagerFrame

DatabaseClose ==
    /\ CanCall
    /\ engine' = close(engine)
    /\ last' = Called("close", Ret(None), FALSE, <<>>)
    /\ UNCHANGED db
    /\ ManagerFrame

GetSession(thrown) ==
    /\ CanCall
    /\ \E res \in {database_get_session(engine, thrown)} :
          last' = Called("get_session", res.out, res.yielded, res.session)
    /\ UNCHANGED <<engine, db>>
    /\ ManagerFrame

ManagerInit ==
    /\ use_mock = TRUE
    /\ facet = Idle
    /\ engine = "none"
    /\ db = {}
    /\ next_pk = 1
    /\ now = 1
    /\ sess = [s \in Sessions |-> ClosedSession]
    /\ last = Constructed

ManagerNext ==
    \/ \E url \in BOOLEAN, created \in {"ret", "raise"} : DatabaseInit(url, created)
    \/ \E conn \in {"ret", "raise"} : CreateTables(conn)
    \/ \E conn \in {"ret", "raise"} : DropTables(conn)
    \/ DatabaseClose
    \/ \E thrown \in BOOLEAN : GetSession(thrown)

SpecManager == ManagerInit /\ [][ManagerNext]_vars

\* the manager is between an init that returned and the next close
RECURSIVE Initialised(_)
Initialised(log) ==
    IF log = <<>> THEN FALSE
    ELSE LET call == log[Len(log)]
             before == SubSeq(log, 1, Len(log) - 1)
         IN  IF call.op = "init" /\ call.k = "ret" THEN TRUE
             ELSE IF call.op = "close" THEN FALSE
             ELSE Initialised(before)

\* C30: the database manager is usable only between init and close.  In every
\* state where it is not initialised (before init, after close, or after an
\* init that raised for lack of a URL) get_session, create_tables and
\* drop_tables raise RuntimeError and no session is yielded; close returns the
\* manager to the uninitialised state and can be called again without error;
\* after a later init, sessions are yielded again.
C30_UsableBetweenInitAndClose ==
    LET before == SubSeq(last.log, 1, Len(last.log) - 1)
    IN  /\ (engine = "ready") <=> Initialised(last.log)
        /\ (/\ last.op \in {"get_session", "create_tables", "drop_tables"}
            /\ ~Initialised(before))
               => /\ last.out = Raise("RuntimeError")
                  /\ ~last.yielded
                  /\ last.session = <<>>
        /\ (last.op = "get_session" /\ Initialised(before)) => last.yielded
        /\ last.op = "close" => last.out.k = "ret" /\ engine = "none"
        /\ (last.op = "init" /\ last.out.k = "raise") => engine = last.engine

\* init, close, a get_session that raised, a later init, a session yielded
C30_Witness ==
    /\ Len(last.log) = 5
    /\ last.log[1] = [op |-> "init", k |-> "ret"]
    /\ last.log[2].op = "close"
    /\ last.log[3] = [op |-> "get_session", k |-> "raise"]
    /\ last.log[4] = [op |-> "init", k |-> "ret"]
    /\ last.op = "get_session"
    /\ last.yielded
    /\ last.session = <<"commit", "close">>

====
